---- MODULE Spec2Model ----
(***************************************************************************)
(* Model of the video transcoding pipeline of clipset:                     *)
(*   backend/app/services/video_processor.py  (probes, command builders,   *)
(*                                             transcode executors)        *)
(*   backend/app/services/background_tasks.py (process_video_task)         *)
(* Python values are modelled as follows: str -> TLA+ string, None -> the  *)
(* string None, dict -> function from keys, list -> sequence.              *)
(***************************************************************************)
EXTENDS Integers, Sequences, FiniteSets, TLC

None == "None"

(***************************************************************************)
(* String helpers (Python str / pathlib operations used by the code).      *)
(***************************************************************************)
Char(s, i) == SubSeq(s, i, i)

MaxOf(S) == CHOOSE m \in S : \A k \in S : k <= m

Min2(a, b) == IF a <= b THEN a ELSE b

Max2(a, b) == IF a >= b THEN a ELSE b

\* sub in s
Contains(s, sub) ==
    \E i \in 1..(Len(s) + 1) :
        /\ i + Len(sub) - 1 <= Len(s)
        /\ SubSeq(s, i, i + Len(sub) - 1) = sub

\* s.startswith(p)
StartsWith(s, p) == Len(s) >= Len(p) /\ SubSeq(s, 1, Len(p)) = p

UpperChars == "ABCDEFGHIJKLMNOPQRSTUVWXYZ"

LowerChars == "abcdefghijklmnopqrstuvwxyz"

LowerChar(c) ==
    LET I == {i \in 1..Len(UpperChars) : Char(UpperChars, i) = c}
    IN IF I = {} THEN c ELSE Char(LowerChars, MaxOf(I))

\* s.lower()
RECURSIVE LowerFrom(_, _)
LowerFrom(s, i) ==
    IF i > Len(s) THEN "" ELSE LowerChar(Char(s, i)) \o LowerFrom(s, i + 1)

Lower(s) == LowerFrom(s, 1)

IsSpace(c) == c \in {" ", "\n", "\t", "\r"}

\* s.strip()
Strip(s) ==
    LET K == {i \in 1..Len(s) : ~IsSpace(Char(s, i))}
    IN IF K = {} THEN "" ELSE SubSeq(s, CHOOSE a \in K : \A k \in K : a <= k, MaxOf(K))

\* s repeated n times
RECURSIVE Rep(_, _)
Rep(s, n) ==
    IF n = 0 THEN ""
    ELSE IF n % 2 = 0 THEN LET h == Rep(s, n \div 2) IN h \o h
    ELSE s \o Rep(s, n - 1)

\* the [:500] and [-500:] slices of the error messages
ErrLimit == 500

\* s[:n]
Prefix(s, n) == SubSeq(s, 1, Min2(n, Len(s)))

\* s[-n:]
Suffix(s, n) == SubSeq(s, Max2(1, Len(s) - n + 1), Len(s))

\* position of the last "." of a file name, 0 when there is none
LastDot(n) ==
    LET D == {i \in 1..Len(n) : Char(n, i) = "."}
    IN IF D = {} THEN 0 ELSE MaxOf(D)

\* Path(n).suffix
PathSuffix(n) ==
    LET d == LastDot(n) IN IF d > 1 /\ d < Len(n) THEN SubSeq(n, d, Len(n)) ELSE ""

\* Path(n).stem
PathStem(n) ==
    LET d == LastDot(n) IN IF d > 1 /\ d < Len(n) THEN SubSeq(n, 1, d - 1) ELSE n

\* Path(a) / b
PathJoin(a, b) == IF b \in {"", "."} THEN a ELSE a \o "/" \o b

\* dict.get(k, default)
Get(d, k, default) == IF k \in DOMAIN d THEN d[k] ELSE default

\* an Optional[dict] that is None; the code only tests such values for
\* truthiness, where None and the empty dict agree
NoDict == <<>>

\* Python truthiness of an Optional[dict]
Truthy(d) == DOMAIN d # {}

\* Python truthiness of an Optional[str]
TruthyStr(s) == s # None /\ s # ""

(***************************************************************************)
(* Settings (backend/app/config.py) and stored configuration               *)
(* (backend/app/services/config.py).                                       *)
(***************************************************************************)
FFMPEG_PATH == "ffmpeg"

TEMP_STORAGE_PATH == "../data/uploads/temp"

VIDEO_STORAGE_PATH == "../data/uploads/videos"

RESOLUTION_MAP ==
    [r \in {"720p", "1080p", "1440p", "4k"} |->
        CASE r = "720p" -> <<1280, 720>>
          [] r = "1080p" -> <<1920, 1080>>
          [] r = "1440p" -> <<2560, 1440>>
          [] r = "4k" -> <<3840, 2160>>]

get_resolution_dimensions(resolution) == Get(RESOLUTION_MAP, resolution, <<1920, 1080>>)

\* Config rows: the transcoding columns of the Config model
\* (backend/app/models/config.py), with the values of the "balanced" defaults
\* or of the "quality" preset of TRANSCODING_PRESETS
ConfigRow(preset, gpu) ==
    IF preset = "quality"
    THEN [use_gpu_transcoding |-> gpu, gpu_device_id |-> 0, nvenc_preset |-> "p6",
          nvenc_cq |-> 16, nvenc_rate_control |-> "vbr", nvenc_max_bitrate |-> "15M",
          nvenc_buffer_size |-> "30M", cpu_preset |-> "slow", cpu_crf |-> 16,
          max_resolution |-> "4k", audio_bitrate |-> "256k"]
    ELSE [use_gpu_transcoding |-> gpu, gpu_device_id |-> 0, nvenc_preset |-> "p4",
          nvenc_cq |-> 18, nvenc_rate_control |-> "vbr", nvenc_max_bitrate |-> "8M",
          nvenc_buffer_size |-> "16M", cpu_preset |-> "medium", cpu_crf |-> 18,
          max_resolution |-> "1080p", audio_bitrate |-> "192k"]

\* the attributes get_transcoding_config_dict reads from its argument
ConfigAttrsRead ==
    {"use_gpu_transcoding", "gpu_device_id", "nvenc_preset", "nvenc_cq",
     "nvenc_rate_control", "nvenc_max_bitrate", "nvenc_buffer_size", "cpu_preset",
     "cpu_crf", "max_resolution", "audio_bitrate", "video_output_format"}

\* reading an attribute the object does not have raises AttributeError
RaisesAttributeError(config) == ConfigAttrsRead \ DOMAIN config # {}

get_transcoding_config_dict(config) ==
    LET dim == get_resolution_dimensions(config.max_resolution)
    IN [use_gpu_transcoding |-> config.use_gpu_transcoding,
        gpu_device_id |-> config.gpu_device_id,
        nvenc_preset |-> config.nvenc_preset,
        nvenc_cq |-> config.nvenc_cq,
        nvenc_rate_control |-> config.nvenc_rate_control,
        nvenc_max_bitrate |-> config.nvenc_max_bitrate,
        nvenc_buffer_size |-> config.nvenc_buffer_size,
        cpu_preset |-> config.cpu_preset,
        cpu_crf |-> config.cpu_crf,
        max_width |-> dim[1],
        max_height |-> dim[2],
        audio_bitrate |-> config.audio_bitrate,
        video_output_format |-> config.video_output_format]

\* the dicts a caller hands to process_video_file and to the builders: the keys
\* and values get_transcoding_config_dict produces when every read succeeds
TranscodeConfigDict(preset, gpu, format) ==
    get_transcoding_config_dict(ConfigRow(preset, gpu) @@ [video_output_format |-> format])

(***************************************************************************)
(* Transcode command builders (video_processor.py).                        *)
(***************************************************************************)
\* is_full_range of both builders
IsFullRange(color_info) ==
    IF Truthy(color_info)
    THEN LET input_color_range == Get(color_info, "color_range", None)
             raw == Get(color_info, "pix_fmt", None)
             input_pix_fmt == IF TruthyStr(raw) THEN raw ELSE ""
         IN input_color_range = "pc" \/ StartsWith(input_pix_fmt, "yuvj")
    ELSE FALSE

\* a builder that tags every output with the limited-range pixel format
OutputPixFmtAlwaysLimited(color_info) == "yuv420p"

OutputPixFmt(color_info) == IF IsFullRange(color_info) THEN "yuvj420p" ELSE "yuv420p"

OutputColorRange(color_info) == IF IsFullRange(color_info) THEN "pc" ELSE "tv"

ScaleFilter(max_width, max_height, color_info) ==
    LET base == "scale='min(" \o ToString(max_width) \o ",iw)':'min("
                \o ToString(max_height) \o ",ih)':force_original_aspect_ratio=decrease"
    IN IF IsFullRange(color_info) THEN base \o ":out_range=full" ELSE base

ColorFlags(color_info) ==
    LET tag(flag, key) ==
            IF Truthy(color_info) /\ Get(color_info, key, None) # None
            THEN <<flag, Get(color_info, key, None)>> ELSE <<>>
    IN <<"-color_range", OutputColorRange(color_info)>>
       \o tag("-colorspace", "color_space")
       \o tag("-color_trc", "color_transfer")
       \o tag("-color_primaries", "color_primaries")

\* settings.NVENC_* defaults, used when no config dict is given
SettingsNvenc ==
    [nvenc_preset |-> "p4", nvenc_cq |-> 18, nvenc_rate_control |-> "vbr",
     nvenc_max_bitrate |-> "8M", nvenc_buffer_size |-> "16M"]

\* an encoder part whose hardware branch always asks for the limited-range format
EncoderArgsNvencLimited(transcode_config, gpu_branch, color_info) ==
    IF gpu_branch
    THEN <<"-c:v", "h264_nvenc", "-pix_fmt", "yuv420p", "-preset", "p4">>
    ELSE <<"-c:v", "libx264", "-pix_fmt", OutputPixFmt(color_info), "-preset", "medium">>

\* the video encoder part of a command: NVENC or libx264
EncoderArgs(transcode_config, gpu_branch, color_info) ==
    IF gpu_branch
    THEN LET c == IF Truthy(transcode_config) THEN transcode_config ELSE SettingsNvenc
         IN <<"-c:v", "h264_nvenc", "-pix_fmt", OutputPixFmt(color_info),
              "-preset", Get(c, "nvenc_preset", "p4"),
              "-rc", Get(c, "nvenc_rate_control", "vbr"),
              "-cq", ToString(Get(c, "nvenc_cq", 18)),
              "-b:v", "0",
              "-maxrate", Get(c, "nvenc_max_bitrate", "8M"),
              "-bufsize", Get(c, "nvenc_buffer_size", "16M")>>
    ELSE LET c == IF Truthy(transcode_config) THEN transcode_config ELSE <<>>
         IN <<"-c:v", "libx264", "-pix_fmt", OutputPixFmt(color_info),
              "-preset", Get(c, "cpu_preset", "medium"),
              "-crf", ToString(Get(c, "cpu_crf", 18))>>

\* _get_transcode_command(input_path, output_path, transcode_config, use_gpu, color_info)
\* settings_gpu is settings.USE_GPU_TRANSCODING
GetTranscodeCommand(input_path, output_path, transcode_config, use_gpu, color_info, settings_gpu) ==
    LET c == IF Truthy(transcode_config) THEN transcode_config ELSE <<>>
        use_gpu_transcoding ==
            IF Truthy(transcode_config) THEN Get(c, "use_gpu_transcoding", FALSE)
            ELSE settings_gpu
        max_width == Get(c, "max_width", 1920)
        max_height == Get(c, "max_height", 1080)
        audio_bitrate == Get(c, "audio_bitrate", "192k")
    IN <<FFMPEG_PATH, "-i", input_path, "-vf",
         ScaleFilter(max_width, max_height, color_info)>>
       \o EncoderArgs(transcode_config, use_gpu /\ use_gpu_transcoding, color_info)
       \o ColorFlags(color_info)
       \o <<"-c:a", "aac", "-b:a", audio_bitrate, "-movflags", "+faststart",
            "-y", output_path>>

\* hls_time of _get_hls_transcode_command
HlsTime == 4

\* _get_hls_transcode_command(input_path, output_dir, transcode_config, use_gpu, color_info)
GetHlsTranscodeCommand(input_path, output_dir, transcode_config, use_gpu, color_info, settings_gpu) ==
    LET c == IF Truthy(transcode_config) THEN transcode_config ELSE <<>>
        use_gpu_transcoding ==
            IF Truthy(transcode_config) THEN Get(c, "use_gpu_transcoding", FALSE)
            ELSE settings_gpu
        max_width == Get(c, "max_width", 1920)
        max_height == Get(c, "max_height", 1080)
        audio_bitrate == Get(c, "audio_bitrate", "192k")
        manifest_path == output_dir \o "/master.m3u8"
        segment_pattern == output_dir \o "/segment%03d.ts"
    IN <<FFMPEG_PATH, "-i", input_path, "-vf",
         ScaleFilter(max_width, max_height, color_info)>>
       \o EncoderArgs(transcode_config, use_gpu /\ use_gpu_transcoding, color_info)
       \o ColorFlags(color_info)
       \o <<"-c:a", "aac", "-b:a", audio_bitrate, "-f", "hls",
            "-hls_time", ToString(HlsTime), "-hls_list_size", "0",
            "-hls_segment_type", "mpegts", "-hls_segment_filename", segment_pattern,
            "-y", manifest_path>>

(***************************************************************************)
(* State of one process_video_task invocation and of the files it touches. *)
(***************************************************************************)
VARIABLES
    caller,             \* what runs: process_video_task, or process_video_file alone
    pc,                 \* position in process_video_task / process_video_file
    recExists,          \* the Video row exists in the database
    videoBound,         \* the local name video: "unbound", "none" or "rec"
    filename,           \* video.filename
    status,             \* video.processing_status
    error_message,      \* video.error_message
    thumbnail_filename, \* video.thumbnail_filename
    dbStatus,           \* committed processing_status
    dbError,            \* committed error_message
    writes,             \* the statuses this invocation assigned, in order
    processingCommitted,\* the commit of line 64 succeeded
    startFilename,      \* video.filename when the job started
    tempFiles,          \* names of the files in TEMP_STORAGE_PATH
    cfgRow,             \* the stored Config row
    settingsGpu,        \* settings.USE_GPU_TRANSCODING
    tc,                 \* transcode_config of the task (NoDict when None)
    procs,              \* external processes launched, in order
    metadata,           \* dict returned by get_video_metadata
    probedCodec,        \* codec read by the first probe of needs_transcoding
    probedPixFmt,       \* pix_fmt read by its second probe
    result,             \* dict built by process_video_file
    output,             \* content of the progressive output file
    manifest,           \* master.m3u8 exists in the HLS output directory
    thumbExists,        \* the thumbnail file exists
    thumbOutcome,       \* how extract_thumbnail ended ("none" before)
    exc,                \* text of the exception being propagated, or None
    excSeen,            \* text of the exception the task's handler caught
    handlerCommitted,   \* the handler's commit of FAILED succeeded
    finalizerRan,       \* the finally block of the task ran
    raised,             \* the task raised to its caller
    execRaised,         \* an executor raised instead of returning
    cmdColor,           \* color_info given to the command builders
    cmdConfig,          \* transcode_config given to the command builders
    cmdSettingsGpu,     \* settings.USE_GPU_TRANSCODING seen by the builders
    cmds,               \* the commands built from them
    chunkFs,            \* directories under CHUNKS_STORAGE_PATH: path -> (file name -> data)
    sessionState,       \* upload id -> "unissued", "live" (initialised) or "closed"
    saves,              \* number of upload_video_chunk requests so far
    lastSave,           \* the last save_chunk call: id, outcome, whether files changed
    cpc,                \* position in complete_chunk_upload
    cReq,               \* request.upload_id of the complete_chunk_upload in progress
    destFile,           \* the merged temp file at temp_path
    cMerge,             \* how the merge_chunks call of this request ended
    cOutcome,           \* how complete_chunk_upload ended ("none" while it runs)
    recordCreated,      \* a Video row referencing temp_path was committed
    completes,          \* number of complete_chunk_upload requests so far
    merged,             \* upload id -> number of successful merges
    migration_state,    \* the module-level dict _migration_state; errors holds a list id
    errLists,           \* the list objects created for errors, by id
    mpc,                \* position of each migrate_all_videos_to_hls task
    todo,               \* per task: the candidates not yet finished, in order
    enumerated,         \* per task: videos_to_migrate of its current batch
    attempted,          \* per task: the candidates its loop has started, in order
    hasManifest,        \* video id -> master.m3u8 exists in its HLS directory
    hasSource,          \* video id -> the progressive source file exists
    snapshot,           \* the dict last returned by get_migration_status, and what it held
    invocations,        \* number of migrate_all_videos_to_hls invocations so far
    batches,            \* number of invocations that passed the guard
    countsBatch,        \* the batch that last wrote total and completed (0: none)
    videoStatus,        \* processing_status of each video record
    lastCall            \* the latest migrate_video_to_hls call: what it saw and did

taskVars ==
    <<caller, pc, recExists, videoBound, filename, status, error_message, thumbnail_filename,
      dbStatus, dbError, writes, processingCommitted, startFilename, tempFiles, cfgRow,
      settingsGpu, tc, procs, metadata, probedCodec, probedPixFmt, result, output,
      manifest, thumbExists, thumbOutcome, exc, excSeen, handlerCommitted, finalizerRan,
      raised, execRaised>>

cmdVars == <<cmdColor, cmdConfig, cmdSettingsGpu, cmds>>

chunkVars ==
    <<chunkFs, sessionState, saves, lastSave, cpc, cReq, destFile, cMerge, cOutcome,
      recordCreated, completes, merged>>

migVars ==
    <<migration_state, errLists, mpc, todo, enumerated, attempted, hasManifest, hasSource,
      snapshot, invocations, batches, countsBatch, videoStatus, lastCall>>

vars == <<taskVars, cmdVars, chunkVars, migVars>>

\* groups used in the UNCHANGED clauses; constVars: what no step of the task changes
constVars ==
    <<caller, recExists, startFilename, cfgRow, settingsGpu, cmdVars, chunkVars, migVars>>

recVars == <<filename, status, error_message, thumbnail_filename, writes>>

dbVars == <<dbStatus, dbError, processingCommitted, handlerCommitted>>

fileVars == <<tempFiles, output, manifest, thumbExists>>

procVars == <<procs, metadata, probedCodec, probedPixFmt, result, thumbOutcome>>

excVars == <<excSeen, finalizerRan, raised, execRaised>>

\* file names generate_unique_filename can produce (extension lower-cased)
Filenames == {"v.mp4", "v.mov"}

Formats == {"hls", "progressive"}

\* texts an exception raised by the environment can carry
ExcTexts == {"[Errno 2] No such file", "CUDA error: no device"}

\* text of a database failure
DbErrorText == "database is locked"

\* diagnostic (stderr) outputs of an external tool
LongText == Rep("e", ErrLimit) \o "tail"

Stderrs == {"", " bad input\n", LongText}

\* colour profiles a probe can report
ProbedMetadata ==
    { [duration |-> "12", width |-> "1920", height |-> "1080", codec |-> "h264",
       color_range |-> cr, color_space |-> None, color_transfer |-> None,
       color_primaries |-> None, pix_fmt |-> pf]
      : cr \in {None, "pc"}, pf \in {"yuv420p"} }

\* result dict at the top of process_video_file
InitialResult ==
    [success |-> FALSE, error |-> None, duration |-> None, width |-> None,
     height |-> None, codec |-> None, output_format |-> "progressive"]

NoResult == <<>>

TaskInit ==
    /\ caller = "task"
    /\ pc = "start"
    /\ recExists \in BOOLEAN
    /\ videoBound = "unbound"
    /\ startFilename \in Filenames
    /\ filename = startFilename
    /\ status = "Pending"
    /\ error_message = None
    /\ thumbnail_filename = None
    /\ dbStatus = "Pending"
    /\ dbError = None
    /\ writes = <<>>
    /\ processingCommitted = FALSE
    /\ tempFiles \in {{}, {startFilename}}
    /\ cfgRow \in {ConfigRow("balanced", g) : g \in BOOLEAN}
    /\ settingsGpu \in BOOLEAN
    /\ tc = NoDict
    /\ procs = <<>>
    /\ metadata = <<>>
    /\ probedCodec = None
    /\ probedPixFmt = None
    /\ result = NoResult
    /\ output = "none"
    /\ manifest = FALSE
    /\ thumbExists = FALSE
    /\ thumbOutcome = "none"
    /\ exc = None
    /\ excSeen = None
    /\ handlerCommitted = FALSE
    /\ finalizerRan = FALSE
    /\ raised = FALSE
    /\ execRaised = FALSE

\* the command builders are not in use
CmdIdle ==
    /\ cmdColor = NoDict
    /\ cmdConfig = NoDict
    /\ cmdSettingsGpu = FALSE
    /\ cmds = <<>>

\* CHUNKS_STORAGE_PATH of the settings
CHUNKS_STORAGE_PATH == "../data/uploads/chunks"

\* a directory without entries
EmptyDir == <<>>

\* the upload id init_upload_session returns (a uuid4 string)
SessionIds == {"s1"}

\* the upload_id values a request can carry: an issued id and a path component
RequestIds == SessionIds \cup {"."}

\* the merged temp file does not exist
NoFile == [exists |-> FALSE, data |-> ""]

\* no merge_chunks call was made by the request in progress
NoMerge == [outcome |-> "none", total |-> 0, order |-> <<>>, stored |-> 0, dest |-> NoFile]

\* no save_chunk call was made yet
NoSave ==
    [upload_id |-> None, known |-> FALSE, outcome |-> "none", stored |-> FALSE]

\* the chunk storage before the first request: nothing uploaded, no request running
ChunkStart ==
    /\ sessionState = [u \in SessionIds |-> "unissued"]
    /\ saves = 0
    /\ lastSave = NoSave
    /\ cpc = "idle"
    /\ cReq = None
    /\ destFile = NoFile
    /\ cMerge = NoMerge
    /\ cOutcome = "none"
    /\ recordCreated = FALSE
    /\ completes = 0
    /\ merged = [u \in RequestIds |-> 0]

\* the chunk upload endpoints are not in use
ChunkIdle ==
    /\ chunkFs = EmptyDir
    /\ ChunkStart

\* the ids of the Completed videos in the library, in the order of the query
VideoOrder == <<"a", "b">>

VideoIds == {VideoOrder[i] : i \in DOMAIN VideoOrder}

\* the tasks that can run migrate_all_videos_to_hls
Tasks == {"t1", "t2"}

\* _migration_state as the module defines it; its errors list is list 1
MigrationStateStart ==
    [is_running |-> FALSE, total |-> 0, completed |-> 0, current_video |-> None,
     errors |-> 1]

\* get_migration_status was not called yet
NoSnapshot ==
    [taken |-> FALSE, dict |-> MigrationStateStart,
     seen |-> [MigrationStateStart EXCEPT !.errors = <<>>]]

\* migrate_video_to_hls has not been called
NoCall == [status |-> "unread", had_manifest |-> FALSE, ret |-> "none", launched |-> FALSE,
           manifest |-> FALSE]

\* the migration coordinator before its first invocation
MigStart ==
    /\ migration_state = MigrationStateStart
    /\ errLists = << <<>> >>
    /\ mpc = [t \in Tasks |-> "idle"]
    /\ todo = [t \in Tasks |-> <<>>]
    /\ enumerated = [t \in Tasks |-> <<>>]
    /\ attempted = [t \in Tasks |-> <<>>]
    /\ snapshot = NoSnapshot
    /\ invocations = 0
    /\ batches = 0
    /\ countsBatch = 0
    /\ lastCall = NoCall

\* the migration coordinator is not in use
MigIdle ==
    /\ MigStart
    /\ videoStatus = [v \in VideoIds |-> "Completed"]
    /\ hasManifest = [v \in VideoIds |-> FALSE]
    /\ hasSource = [v \in VideoIds |-> TRUE]

\* the transcode_config values process_video_file can be called with
FileConfigs ==
    {NoDict} \cup {TranscodeConfigDict("balanced", g, f) : g \in BOOLEAN, f \in Formats}

\* process_video_file called on its own, with an input file and a config
FileInit ==
    /\ caller = "file"
    /\ pc = "validate"
    /\ recExists = FALSE
    /\ videoBound = "unbound"
    /\ startFilename \in Filenames
    /\ filename = startFilename
    /\ status = "Pending"
    /\ error_message = None
    /\ thumbnail_filename = None
    /\ dbStatus = "Pending"
    /\ dbError = None
    /\ writes = <<>>
    /\ processingCommitted = FALSE
    /\ tempFiles = {startFilename}
    /\ cfgRow = ConfigRow("balanced", FALSE)
    /\ settingsGpu \in BOOLEAN
    /\ tc \in FileConfigs
    /\ procs = <<>>
    /\ metadata = <<>>
    /\ probedCodec = None
    /\ probedPixFmt = None
    /\ result = InitialResult
    /\ output = "none"
    /\ manifest = FALSE
    /\ thumbExists = FALSE
    /\ thumbOutcome = "none"
    /\ exc = None
    /\ excSeen = None
    /\ handlerCommitted = FALSE
    /\ finalizerRan = FALSE
    /\ raised = FALSE
    /\ execRaised = FALSE

Init == (TaskInit \/ FileInit) /\ CmdIdle /\ ChunkIdle /\ MigIdle

(***************************************************************************)
(* Paths and derived values of process_video_task.                         *)
(***************************************************************************)
\* storage.normalize_video_extension: "Normalize output filename to .mp4"
normalize_video_extension(name) == PathStem(name) \o ".mp4"

\* temp_path, line 81
TempPath == PathJoin(TEMP_STORAGE_PATH, startFilename)

OutputFilename == normalize_video_extension(startFilename)

\* video_output_path, line 90
VideoOutputPath == PathJoin(VIDEO_STORAGE_PATH, OutputFilename)

\* thumbnail_filename, line 91
ThumbnailName == PathStem(OutputFilename) \o ".jpg"

\* hls_dir of process_video_file, line 1071
HlsDir == PathJoin(VIDEO_STORAGE_PATH, PathStem(OutputFilename))

\* video_output_format of process_video_file, lines 1064-1066
VideoOutputFormat == IF Truthy(tc) THEN Get(tc, "video_output_format", "hls") ELSE "hls"

\* use_gpu of the executors, lines 549-553 and 879-883
UseGpu == IF Truthy(tc) THEN Get(tc, "use_gpu_transcoding", FALSE) ELSE settingsGpu

\* color_info handed to the executors, lines 1055-1061
ColorInfo ==
    [color_range |-> Get(metadata, "color_range", None),
     color_space |-> Get(metadata, "color_space", None),
     color_transfer |-> Get(metadata, "color_transfer", None),
     color_primaries |-> Get(metadata, "color_primaries", None),
     pix_fmt |-> Get(metadata, "pix_fmt", None)]

Launch(tool, out, cmd) == [tool |-> tool, out |-> out, cmd |-> cmd]

\* an exception leaves the try block of process_video_task
RaiseInTask(text) == exc' = text /\ pc' = "except"

\* an exception leaves process_video_file: into the try block of the task, or
\* to whoever called process_video_file
RaiseFromFile(text) ==
    /\ exc' = text
    /\ pc' = IF caller = "task" THEN "except" ELSE "file_raised"

(***************************************************************************)
(* process_video_task, lines 48-113.                                       *)
(***************************************************************************)
\* lines 51-56: fetch the record
FetchVideo ==
    /\ pc = "start"
    /\ \/ /\ RaiseInTask(DbErrorText)
          /\ UNCHANGED videoBound
       \/ /\ recExists
          /\ videoBound' = "rec"
          /\ pc' = "mark"
          /\ UNCHANGED exc
       \/ /\ ~recExists
          /\ videoBound' = "none"
          /\ pc' = "finally"
          /\ UNCHANGED exc
    /\ UNCHANGED <<constVars, recVars, dbVars, fileVars, procVars, excVars, tc>>

\* lines 62-64: mark PROCESSING and commit
MarkProcessing ==
    /\ pc = "mark"
    /\ status' = "Processing"
    /\ writes' = Append(writes, "Processing")
    /\ \/ /\ dbStatus' = "Processing"
          /\ processingCommitted' = TRUE
          /\ pc' = "load_config"
          /\ UNCHANGED exc
       \/ /\ RaiseInTask(DbErrorText)
          /\ UNCHANGED <<dbStatus, processingCommitted>>
    /\ UNCHANGED <<constVars, filename, error_message, thumbnail_filename, dbError,
                   handlerCommitted, fileVars, procVars, excVars, tc, videoBound>>

\* lines 66-78: load the transcoding config, None when that fails
LoadConfig ==
    /\ pc = "load_config"
    /\ \/ /\ ~RaisesAttributeError(cfgRow)
          /\ tc' = get_transcoding_config_dict(cfgRow)
       \/ \* get_or_create_config or get_transcoding_config_dict raised
          tc' = NoDict
    /\ pc' = "check_temp"
    /\ UNCHANGED <<constVars, recVars, dbVars, fileVars, procVars, excVars, exc,
                   videoBound>>

\* lines 96-98: the temp file must exist
CheckTempFile ==
    /\ pc = "check_temp"
    /\ IF filename \in tempFiles
       THEN /\ pc' = "validate"
            /\ result' = InitialResult
            /\ UNCHANGED exc
       ELSE /\ RaiseInTask("Temp file not found: " \o PathJoin(TEMP_STORAGE_PATH, filename))
            /\ UNCHANGED result
    /\ UNCHANGED <<constVars, recVars, dbVars, fileVars, procs, metadata, probedCodec, probedPixFmt,
                   thumbOutcome, excVars, tc, videoBound>>

(***************************************************************************)
(* Probes of video_processor.py.                                           *)
(***************************************************************************)
\* how an external process call can end: exit status zero or non-zero, the
\* wait_for timeout, or an exception of create_subprocess_exec
Outcomes == {"zero", "nonzero", "timeout", "exc"}

\* validate_video_file, lines 341-358: (is_valid, error_message)
ValidateResult(out, stdout, stderr, text) ==
    CASE out = "nonzero" ->
            <<FALSE, IF Strip(stderr) # "" THEN Strip(stderr) ELSE "Invalid video file">>
      [] out = "timeout" -> <<FALSE, "Video validation timed out">>
      [] out = "exc" -> <<FALSE, "Validation error: " \o text>>
      [] OTHER ->
            IF ~Contains(Lower(stdout), "video")
            THEN <<FALSE, "File is not a valid video">>
            ELSE <<TRUE, "">>

\* the validation probe with the pair validate_video_file returned
LaunchValidate(out, is_valid, error_msg) ==
    [tool |-> "validate", out |-> out, cmd |-> <<>>, is_valid |-> is_valid,
     error_msg |-> error_msg]

\* process_video_file, lines 1043-1046
ValidateVideoFile ==
    /\ pc = "validate"
    /\ \E out \in Outcomes :
       \E stdout \in (IF out = "zero" THEN {"video\n", ""} ELSE {""}) :
       \E stderr \in (IF out = "nonzero" THEN Stderrs ELSE {""}) :
       \E text \in (IF out = "exc" THEN ExcTexts ELSE {""}) :
           LET v == ValidateResult(out, stdout, stderr, text)
           IN /\ procs' = Append(procs, LaunchValidate(out, v[1], v[2]))
              /\ IF v[1]
                 THEN pc' = "metadata" /\ UNCHANGED result
                 ELSE /\ result' = [result EXCEPT !.error = v[2]]
                      /\ pc' = "handle_result"
    /\ UNCHANGED <<constVars, recVars, dbVars, fileVars, metadata, probedCodec, probedPixFmt,
                   thumbOutcome, excVars, exc, tc, videoBound>>

\* where the executor starts: the GPU command or the CPU command
ExecutorEntry == IF UseGpu THEN "x_gpu" ELSE "x_cpu_try"

\* get_video_metadata and process_video_file, lines 1048-1052
GetVideoMetadata ==
    /\ pc = "metadata"
    /\ \E out \in Outcomes :
       \E md \in (IF out = "zero" THEN ProbedMetadata ELSE {<<>>}) :
           /\ procs' = Append(procs, Launch("metadata", out, <<>>))
           /\ metadata' = md
           /\ result' = [result EXCEPT !.duration = Get(md, "duration", None),
                                       !.width = Get(md, "width", None),
                                       !.height = Get(md, "height", None),
                                       !.codec = Get(md, "codec_name", None)]
    /\ pc' = IF VideoOutputFormat = "hls" THEN ExecutorEntry ELSE "needs_codec"
    /\ UNCHANGED <<constVars, recVars, dbVars, fileVars, probedCodec, probedPixFmt, thumbOutcome,
                   excVars, exc, tc, videoBound>>

\* needs_transcoding, lines 505-511
NeedsTranscodeDecision(codec, pix_fmt, filepath) ==
    LET is_8bit == pix_fmt # "" /\ ~Contains(pix_fmt, "10") /\ ~Contains(pix_fmt, "12")
        is_h264 == codec \in {"h264", "libx264", "avc"}
        is_mp4 == Lower(PathSuffix(filepath)) = ".mp4"
    IN ~(is_h264 /\ is_mp4 /\ is_8bit)

\* needs_transcoding, lines 460-484: the codec probe
NeedsTranscodingCodec ==
    /\ pc = "needs_codec"
    /\ \E out \in Outcomes :
       \E stdout \in (IF out = "zero" THEN {"h264\n", "H264\n", "hevc\n"} ELSE {""}) :
           /\ procs' = Append(procs, Launch("codec_probe", out, <<>>))
           /\ IF out = "zero"
              THEN probedCodec' = Lower(Strip(stdout)) /\ pc' = "needs_pix"
              ELSE UNCHANGED probedCodec /\ pc' = ExecutorEntry
    /\ UNCHANGED <<constVars, recVars, dbVars, fileVars, metadata, probedPixFmt, result,
                   thumbOutcome, excVars, exc, tc, videoBound>>

\* needs_transcoding, lines 486-524: the pixel format probe; its exit status
\* is never read
NeedsTranscodingPixFmt ==
    /\ pc = "needs_pix"
    /\ \E out \in Outcomes :
       \E stdout \in (IF out \in {"zero", "nonzero"}
                      THEN {"yuv420p\n", "yuv420p10le\n", ""} ELSE {""}) :
           /\ procs' = Append(procs, Launch("pix_probe", out, <<>>))
           /\ probedPixFmt' = IF out \in {"timeout", "exc"} THEN None ELSE Lower(Strip(stdout))
           /\ pc' = IF out \in {"timeout", "exc"}
                       \/ NeedsTranscodeDecision(probedCodec, Lower(Strip(stdout)), TempPath)
                    THEN ExecutorEntry ELSE "copy"
    /\ UNCHANGED <<constVars, recVars, dbVars, fileVars, metadata, probedCodec, result,
                   thumbOutcome, excVars, exc, tc, videoBound>>

\* process_video_file, lines 1105-1116: copy a compatible file
CopyCompatible ==
    /\ pc = "copy"
    /\ \/ /\ output' = "src"
          /\ result' = [result EXCEPT !.output_format = "progressive"]
          /\ pc' = "thumbnail"
       \/ \E text \in ExcTexts :
          /\ result' = [result EXCEPT !.error = "Failed to copy video: " \o text]
          /\ pc' = "handle_result"
          /\ UNCHANGED output
    /\ UNCHANGED <<constVars, recVars, dbVars, tempFiles, manifest, thumbExists, procs,
                   metadata, probedCodec, probedPixFmt, thumbOutcome, excVars, exc, tc, videoBound>>

(***************************************************************************)
(* Transcode executors: transcode_video / transcode_video_hls with         *)
(* _transcode_cpu_fallback / _transcode_hls_cpu_fallback.  The two have    *)
(* the same structure; hls selects the segmented one.                      *)
(***************************************************************************)
IsHls == VideoOutputFormat = "hls"

\* the command an executor builds for its GPU or CPU attempt
EncoderCommand(hls, use_gpu) ==
    IF hls
    THEN GetHlsTranscodeCommand(TempPath, HlsDir, tc, use_gpu, ColorInfo, settingsGpu)
    ELSE GetTranscodeCommand(TempPath, VideoOutputPath, tc, use_gpu, ColorInfo, settingsGpu)

\* the test of the except Exception branch, lines 608 and 937
IsGpuFault(use_gpu, text) ==
    /\ use_gpu
    /\ \E error_str \in {Lower(text)} :
           Contains(error_str, "nvenc") \/ Contains(error_str, "cuda")

\* what follows the GPU attempt inside the try block, lines 566-585 / 896-915,
\* or its exception handlers, lines 592-618 / 921-947
GpuNext(out, text, use_gpu) ==
    CASE out = "zero" -> "ok"
      [] out = "nonzero" -> "cpu_try"
      [] out = "timeout" -> "cpu_handler"
      [] OTHER -> IF IsGpuFault(use_gpu, text) THEN "cpu_handler" ELSE "err"

\* an executor that reports the GPU failure although the CPU fallback exited zero
CpuTryNextFailsAfterGpu(out, text, use_gpu) ==
    CASE out = "zero" -> IF use_gpu THEN "fail" ELSE "ok"
      [] out = "nonzero" -> "fail"
      [] out = "timeout" -> "cpu_handler"
      [] OTHER -> IF IsGpuFault(use_gpu, text) THEN "cpu_handler" ELSE "err"

\* what follows a CPU fallback called inside the try block, lines 583-590 /
\* 913-919: its timeout and its exceptions reach the executor's handlers
CpuTryNext(out, text, use_gpu) ==
    CASE out = "zero" -> "ok"
      [] out = "nonzero" -> "fail"
      [] out = "timeout" -> "cpu_handler"
      [] OTHER -> IF IsGpuFault(use_gpu, text) THEN "cpu_handler" ELSE "err"

\* what follows a CPU fallback called from an exception handler, lines 597,
\* 613 / 926, 942: nothing catches its timeout or exception
CpuHandlerNext(out) ==
    CASE out = "zero" -> "ok"
      [] out = "nonzero" -> "fail"
      [] OTHER -> "raise"

\* _transcode_cpu_fallback, lines 302-305, and _transcode_hls_cpu_fallback,
\* lines 844-847
CpuFailMessage(hls, stderr) ==
    (IF hls THEN "CPU HLS transcoding failed: " ELSE "CPU transcoding failed: ")
    \o (IF stderr # "" THEN Suffix(stderr, ErrLimit) ELSE "Unknown error")

\* lines 618 and 947
ExecErrorMessage(hls, text) ==
    (IF hls THEN "HLS transcoding error: " ELSE "Transcoding error: ") \o text

\* what an encoder run leaves on disk: a zero exit of the segmented encoder
\* leaves a manifest or not (m), a timed out run may have written one
EncoderFiles(hls, out, m) ==
    /\ manifest' = IF hls /\ out = "zero" THEN m
                   ELSE IF hls /\ out = "timeout" THEN manifest \/ m
                   ELSE manifest
    /\ output' = IF ~hls /\ out = "zero" THEN "enc"
                 ELSE IF ~hls /\ out = "timeout" THEN "partial"
                 ELSE output
    /\ UNCHANGED <<tempFiles, thumbExists>>

ManifestChoices(hls, out) == IF hls /\ out \in {"zero", "timeout"} THEN BOOLEAN ELSE {FALSE}

\* process_video_file receives (success, error_msg), lines 1079-1083 and
\* 1101-1116
ReturnFromExecutor(success, error_msg, hls) ==
    /\ IF success
       THEN /\ result' = [result EXCEPT !.output_format = IF hls THEN "hls" ELSE "progressive"]
            /\ pc' = "thumbnail"
       ELSE /\ result' = [result EXCEPT !.error = error_msg]
            /\ pc' = "handle_result"
    /\ UNCHANGED exc

\* whether the process still runs when the await on it has ended: wait_for
\* cancels communicate() on a timeout and nothing terminates the process
StillRunningAfter(out) == out = "timeout"

\* an encoder process: its command, how the await on it ended, what it wrote
\* to stderr and whether it was left running
LaunchEncoder(tool, out, cmd, stderr) ==
    [tool |-> tool, out |-> out, cmd |-> cmd, stderr |-> stderr,
     alive |-> StillRunningAfter(out)]

\* one step of an executor: launch the encoder, then act on how it ended
ExecutorStep(hls, tool, out, text, stderr, next) ==
    /\ procs' = Append(procs,
                       LaunchEncoder(tool, out, EncoderCommand(hls, tool = "gpu"), stderr))
    /\ CASE next = "ok" -> ReturnFromExecutor(TRUE, "", hls)
         [] next = "fail" -> ReturnFromExecutor(FALSE, CpuFailMessage(hls, stderr), hls)
         [] next = "err" -> ReturnFromExecutor(FALSE, ExecErrorMessage(hls, text), hls)
         [] next = "raise" -> RaiseFromFile(text) /\ UNCHANGED result
         [] next = "cpu_try" -> pc' = "x_cpu_try" /\ UNCHANGED <<result, exc>>
         [] next = "cpu_handler" -> pc' = "x_cpu_handler" /\ UNCHANGED <<result, exc>>
    /\ execRaised' = (next = "raise")
    /\ UNCHANGED <<constVars, recVars, dbVars, metadata, probedCodec, probedPixFmt,
                   thumbOutcome, excSeen, finalizerRan, raised, tc, videoBound>>

RunGpu(hls) ==
    /\ pc = "x_gpu"
    /\ IsHls = hls
    /\ \E out \in Outcomes :
       \E text \in (IF out = "exc" THEN ExcTexts ELSE {""}) :
       \E m \in ManifestChoices(hls, out) :
       \E next \in {GpuNext(out, text, UseGpu)} :
           /\ EncoderFiles(hls, out, m)
           /\ ExecutorStep(hls, "gpu", out, text, "", next)

RunCpuTry(hls) ==
    /\ pc = "x_cpu_try"
    /\ IsHls = hls
    /\ \E out \in Outcomes :
       \E text \in (IF out = "exc" THEN ExcTexts ELSE {""}) :
       \E stderr \in (IF out = "nonzero" THEN Stderrs ELSE {""}) :
       \E m \in ManifestChoices(hls, out) :
       \E next \in {CpuTryNext(out, text, UseGpu)} :
           /\ EncoderFiles(hls, out, m)
           /\ ExecutorStep(hls, "cpu", out, text, stderr, next)

RunCpuHandler(hls) ==
    /\ pc = "x_cpu_handler"
    /\ IsHls = hls
    /\ \E out \in Outcomes :
       \E text \in (IF out = "exc" THEN ExcTexts ELSE {""}) :
       \E stderr \in (IF out = "nonzero" THEN Stderrs ELSE {""}) :
       \E m \in ManifestChoices(hls, out) :
       \E next \in {CpuHandlerNext(out)} :
           /\ EncoderFiles(hls, out, m)
           /\ ExecutorStep(hls, "cpu", out, text, stderr, next)

\* transcode_video, lines 555-585: the GPU attempt
TranscodeVideoGpu == RunGpu(FALSE)

\* transcode_video, lines 583-590: the CPU command run inside the try block
TranscodeVideoCpu == RunCpuTry(FALSE)

\* transcode_video, lines 592-618: the CPU command run by an exception handler
TranscodeVideoCpuInHandler == RunCpuHandler(FALSE)

\* transcode_video_hls, lines 885-915
TranscodeVideoHlsGpu == RunGpu(TRUE)

\* transcode_video_hls, lines 913-919
TranscodeVideoHlsCpu == RunCpuTry(TRUE)

\* transcode_video_hls, lines 921-947
TranscodeVideoHlsCpuInHandler == RunCpuHandler(TRUE)

(***************************************************************************)
(* Thumbnail and the end of process_video_file.                            *)
(***************************************************************************)
\* a process_video_file whose success requires the thumbnail
FinalSuccessNeedsThumbnail(thumbnail_success) == thumbnail_success

\* result["success"] of lines 1122-1125, given thumbnail_success
FinalSuccess(thumbnail_success) == TRUE

\* extract_thumbnail, called at lines 1089 and 1118
ExtractThumbnail ==
    /\ pc = "thumbnail"
    /\ ~IsHls \/ manifest
    /\ \E out \in Outcomes :
       \E partial \in (IF out \in {"nonzero", "timeout"} THEN BOOLEAN ELSE {FALSE}) :
           /\ procs' = Append(procs, Launch("thumbnail", out, <<>>))
           /\ thumbOutcome' = out
           /\ thumbExists' = IF out = "zero" THEN TRUE ELSE partial
           /\ result' = [result EXCEPT !.success = FinalSuccess(out = "zero")]
    /\ pc' = "handle_result"
    /\ UNCHANGED <<constVars, recVars, dbVars, tempFiles, output, manifest, metadata,
                   probedCodec, probedPixFmt, excVars, exc, tc, videoBound>>

\* lines 1092-1093: no manifest, no thumbnail
SkipThumbnail ==
    /\ pc = "thumbnail"
    /\ IsHls /\ ~manifest
    /\ thumbOutcome' = "skipped"
    /\ result' = [result EXCEPT !.success = FinalSuccess(FALSE)]
    /\ pc' = "handle_result"
    /\ UNCHANGED <<constVars, recVars, dbVars, fileVars, procs, metadata, probedCodec, probedPixFmt,
                   excVars, exc, tc, videoBound>>

(***************************************************************************)
(* process_video_task, lines 115-216.                                      *)
(***************************************************************************)
\* video.filename after a success, lines 129-163
FilenameAfterSuccess(actual_output_format) ==
    IF actual_output_format = "hls" THEN PathStem(OutputFilename) ELSE OutputFilename

\* process_video_file returns its result to a caller other than the task
FileReturn ==
    /\ pc = "handle_result"
    /\ caller = "file"
    /\ pc' = "returned"
    /\ UNCHANGED <<constVars, recVars, dbVars, fileVars, procVars, excVars, exc, tc,
                   videoBound>>

\* lines 115-180: write the result to the record
HandleResult ==
    /\ pc = "handle_result"
    /\ caller = "task"
    /\ IF ~result.success
       THEN /\ status' = "Failed"
            /\ error_message' = Prefix(Get(result, "error", "Unknown error"), ErrLimit)
            /\ writes' = Append(writes, "Failed")
            /\ UNCHANGED <<filename, thumbnail_filename>>
       ELSE /\ status' = "Completed"
            /\ thumbnail_filename' = IF thumbExists THEN ThumbnailName ELSE None
            /\ filename' = FilenameAfterSuccess(Get(result, "output_format", "progressive"))
            /\ writes' = Append(writes, "Completed")
            /\ UNCHANGED error_message
    /\ pc' = "commit"
    /\ UNCHANGED <<constVars, dbVars, fileVars, procVars, excVars, exc, tc, videoBound>>

\* line 182: commit the result
CommitResult ==
    /\ pc = "commit"
    /\ \/ /\ dbStatus' = status
          /\ dbError' = error_message
          /\ pc' = "finally"
          /\ UNCHANGED exc
       \/ /\ RaiseInTask(DbErrorText)
          /\ UNCHANGED <<dbStatus, dbError>>
    /\ UNCHANGED <<constVars, recVars, processingCommitted, handlerCommitted, fileVars,
                   procVars, excVars, tc, videoBound>>

\* an except block that ends with a raise statement
HandlerReraisesAlways == TRUE

\* whether the except block of lines 184-202 ends with a raise statement
HandlerReraises == FALSE

\* line 197: the error message the handler stores
HandlerErrorMessage(text) == Prefix("Processing error: " \o text, ErrLimit)

\* lines 184-202: the handler of unexpected exceptions
ExceptHandler ==
    /\ pc = "except"
    /\ excSeen' = exc
    /\ exc' = IF HandlerReraises THEN exc ELSE None
    /\ \/ \* the query of line 192 raises
          UNCHANGED <<videoBound, recVars, dbVars>>
       \/ /\ ~recExists
          /\ videoBound' = "none"
          /\ UNCHANGED <<recVars, dbVars>>
       \/ /\ recExists
          /\ videoBound' = "rec"
          /\ status' = "Failed"
          /\ error_message' = HandlerErrorMessage(exc)
          /\ writes' = Append(writes, "Failed")
          /\ UNCHANGED <<filename, thumbnail_filename, processingCommitted>>
          /\ \/ /\ dbStatus' = "Failed"
                /\ dbError' = error_message'
                /\ handlerCommitted' = TRUE
             \/ UNCHANGED <<dbStatus, dbError, handlerCommitted>>
    /\ pc' = "finally"
    /\ UNCHANGED <<constVars, fileVars, procVars, finalizerRan, raised, execRaised, tc>>

\* the file name the finally block joins to TEMP_STORAGE_PATH, line 208
FinalizerFilename == filename

\* lines 204-216: the finally block
Finalizer ==
    /\ pc = "finally"
    /\ finalizerRan' = TRUE
    /\ tempFiles' = IF videoBound = "rec" THEN tempFiles \ {FinalizerFilename}
                    ELSE tempFiles
    /\ raised' = (exc # None)
    /\ pc' = "done"
    /\ UNCHANGED <<constVars, recVars, dbVars, output, manifest, thumbExists, procVars,
                   excSeen, execRaised, exc, tc, videoBound>>

TaskNext ==
    \/ FetchVideo
    \/ MarkProcessing
    \/ LoadConfig
    \/ CheckTempFile
    \/ ValidateVideoFile
    \/ GetVideoMetadata
    \/ NeedsTranscodingCodec
    \/ NeedsTranscodingPixFmt
    \/ CopyCompatible
    \/ TranscodeVideoGpu
    \/ TranscodeVideoCpu
    \/ TranscodeVideoCpuInHandler
    \/ TranscodeVideoHlsGpu
    \/ TranscodeVideoHlsCpu
    \/ TranscodeVideoHlsCpuInHandler
    \/ ExtractThumbnail
    \/ SkipThumbnail
    \/ FileReturn
    \/ HandleResult
    \/ CommitResult
    \/ ExceptHandler
    \/ Finalizer

Next == TaskNext

Spec == Init /\ [][Next]_vars

(***************************************************************************)
(* The command builders on their own: every colour profile a probe can     *)
(* report, every configuration, and the four commands built from them.     *)
(***************************************************************************)
ColorValues == {None, "bt709"}

ColorProfiles ==
    { [color_range |-> cr, color_space |-> cs, color_transfer |-> ct,
       color_primaries |-> cp, pix_fmt |-> pf]
      : cr \in {None, "pc", "tv"}, cs \in ColorValues, ct \in ColorValues,
        cp \in ColorValues,
        pf \in {None, "", "yuv420p", "yuvj420p", "yuvj444p", "yuv420p10le"} }

BuilderConfigs ==
    {NoDict} \cup { TranscodeConfigDict(p, g, "hls")
                    : p \in {"balanced", "quality"}, g \in BOOLEAN }

\* the task is not running
TaskIdle ==
    /\ TaskInit
    /\ ~recExists
    /\ startFilename = "v.mp4"
    /\ tempFiles = {}
    /\ cfgRow = ConfigRow("balanced", FALSE)
    /\ ~settingsGpu

InitCmd ==
    /\ TaskIdle
    /\ ChunkIdle
    /\ MigIdle
    /\ cmdColor \in ColorProfiles \cup {NoDict}
    /\ cmdConfig \in BuilderConfigs
    /\ cmdSettingsGpu \in BOOLEAN
    /\ cmds = <<>>

\* the four commands of _get_transcode_command and _get_hls_transcode_command
\* the commands built by calling the two builders directly
BuilderCommands == {"progressive_gpu", "progressive_cpu", "hls_gpu", "hls_cpu"}

\* migrate_video_to_hls, lines 286-291: the config it hands to transcode_video_hls
MigrationTranscodeConfig(config) ==
    IF RaisesAttributeError(config) THEN [video_output_format |-> "hls"]
    ELSE get_transcoding_config_dict(config)

\* color_info of transcode_video_hls when its caller passes none (line 857)
DefaultColorInfo == NoDict

\* process_video_file, lines 1055-1061: color_info taken from the probed metadata
UploadColorInfo(probed) ==
    [k \in {"color_range", "color_space", "color_transfer", "color_primaries", "pix_fmt"}
        |-> Get(probed, k, None)]

\* the first command transcode_video_hls launches (lines 878-892 and 917-919)
FirstHlsCommand(input_path, output_dir, transcode_config, color_info, settings_gpu) ==
    LET use_gpu == IF Truthy(transcode_config)
                   THEN Get(transcode_config, "use_gpu_transcoding", FALSE)
                   ELSE settings_gpu
    IN GetHlsTranscodeCommand(input_path, output_dir, transcode_config, use_gpu,
                              color_info, settings_gpu)

\* the command launched by the call of lines 293-297, which passes no color_info
MigrationCommand(input_path, output_dir, config, settings_gpu) ==
    FirstHlsCommand(input_path, output_dir, MigrationTranscodeConfig(config),
                    DefaultColorInfo, settings_gpu)

BuildCommands ==
    /\ cmds = <<>>
    /\ cmds' = [progressive_gpu |->
                    GetTranscodeCommand("in.mov", "out.mp4", cmdConfig, TRUE, cmdColor,
                                        cmdSettingsGpu),
                progressive_cpu |->
                    GetTranscodeCommand("in.mov", "out.mp4", cmdConfig, FALSE, cmdColor,
                                        cmdSettingsGpu),
                hls_gpu |->
                    GetHlsTranscodeCommand("in.mov", "out", cmdConfig, TRUE, cmdColor,
                                           cmdSettingsGpu),
                hls_cpu |->
                    GetHlsTranscodeCommand("in.mov", "out", cmdConfig, FALSE, cmdColor,
                                           cmdSettingsGpu),
                upload |->
                    FirstHlsCommand("in.mov", "out", cmdConfig, UploadColorInfo(cmdColor),
                                    cmdSettingsGpu),
                migration |->
                    MigrationCommand("in.mov", "out", cfgRow, cmdSettingsGpu)]
    /\ UNCHANGED <<taskVars, cmdColor, cmdConfig, cmdSettingsGpu, chunkVars, migVars>>

NextCmd == BuildCommands

SpecCmd == InitCmd /\ [][NextCmd]_vars

(***************************************************************************)
(* Chunk reassembler: services/chunk_manager.py and the chunk endpoints of *)
(* api/videos.py.  The file system is a function from directory paths to   *)
(* directories, a directory a function from file names to contents.        *)
(***************************************************************************)
\* number of upload_video_chunk requests explored
MaxSaves == 2

\* number of complete_chunk_upload requests explored
MaxCompletes == 1

\* the chunk_index values of the requests (the form field is any int)
ChunkIndices == {0, 99999, 100000}

\* the chunk bodies of the requests
ChunkData == {"a", "bb"}

\* how the file operations of merge_chunks can end
IoOutcomes == {"ok", "open_fails", "copy_fails"}

get_upload_session_path(upload_id) == PathJoin(CHUNKS_STORAGE_PATH, upload_id)

\* shutil.rmtree(path): the directory and everything below it
RemoveTree(fs, path) ==
    [q \in {d \in DOMAIN fs : d # path /\ ~StartsWith(d, path \o "/")} |-> fs[q]]

\* path.mkdir(parents=True, exist_ok=True) below the storage root
MakeDirs(fs, path) ==
    [q \in DOMAIN fs \cup {CHUNKS_STORAGE_PATH, path} |->
        IF q \in DOMAIN fs THEN fs[q] ELSE EmptyDir]

\* storage.ensure_directories(), for the chunk storage
ensure_directories(fs) == MakeDirs(fs, CHUNKS_STORAGE_PATH)

\* open(path, "wb") and write: the file is created or replaced
WriteFile(dir, name, data) ==
    [n \in DOMAIN dir \cup {name} |-> IF n = name THEN data ELSE dir[n]]

\* the digits of format spec 05d: zero-padded to a minimum width, sign included
ZeroPad(digits, width) ==
    IF Len(digits) >= width THEN digits ELSE Rep("0", width - Len(digits)) \o digits

FormatD05(n) ==
    IF n < 0 THEN "-" \o ZeroPad(ToString(-n), 4) ELSE ZeroPad(ToString(n), 5)

\* f"chunk_{chunk_index:05d}"
ChunkFileName(chunk_index) == "chunk_" \o FormatD05(chunk_index)

\* the characters of the chunk file names in code point order
CodePoints == "-.0123456789_abcdefghijklmnopqrstuvwxyz"

Ord(c) == CHOOSE i \in 1..Len(CodePoints) : Char(CodePoints, i) = c

\* a < b for two paths of one directory: the names compared as strings
StrLess(a, b) ==
    \E k \in 1..(Min2(Len(a), Len(b)) + 1) :
        /\ SubSeq(a, 1, k - 1) = SubSeq(b, 1, k - 1)
        /\ \/ k > Len(a) /\ k <= Len(b)
           \/ /\ k <= Len(a)
              /\ k <= Len(b)
              /\ Ord(Char(a, k)) < Ord(Char(b, k))

\* sorted(names)
RECURSIVE Sorted(_)
Sorted(S) ==
    IF S = {} THEN <<>>
    ELSE LET least == CHOOSE x \in S : \A y \in S \ {x} : StrLess(x, y)
         IN <<least>> \o Sorted(S \ {least})

\* session_path.glob("chunk_*")
Glob(dir) == {n \in DOMAIN dir : StartsWith(n, "chunk_")}

\* the copy loop of merge_chunks: what is written to dest
RECURSIVE CopyAll(_, _)
CopyAll(chunks, dir) ==
    IF chunks = <<>> THEN "" ELSE dir[Head(chunks)] \o CopyAll(Tail(chunks), dir)

\* a total that counts the chunks instead of their bytes
TotalBytesCountsChunks(chunks, dir) == Len(chunks)

\* the copy loop of merge_chunks: total_bytes, from the st_size of each chunk
RECURSIVE TotalBytes(_, _)
TotalBytes(chunks, dir) ==
    IF chunks = <<>> THEN 0 ELSE Len(dir[Head(chunks)]) + TotalBytes(Tail(chunks), dir)

\* a failed merge that leaves the partly written destination in place
FailedMergeDestKept(partial) == partial

\* the except block of merge_chunks: the destination is unlinked if it exists
FailedMergeDest(partial) == NoFile

\* save_chunk(upload_id, chunk_index, chunk_data) on the file system fs
save_chunk(fs, upload_id, chunk_index, chunk_data) ==
    LET session_path == get_upload_session_path(upload_id)
    IN  IF session_path \notin DOMAIN fs
        THEN [outcome |-> "session_not_found", fs |-> fs, returned |-> 0]
        ELSE [outcome |-> "ok",
              fs |-> [fs EXCEPT ![session_path] =
                         WriteFile(@, ChunkFileName(chunk_index), chunk_data)],
              returned |-> Len(chunk_data)]

\* merge_chunks(upload_id, destination_path); the destination is a new file name
merge_chunks(fs, upload_id, io) ==
    LET session_path == get_upload_session_path(upload_id)
    IN  IF session_path \notin DOMAIN fs
        THEN [outcome |-> "session_not_found", total |-> 0, order |-> <<>>, dest |-> NoFile]
        ELSE
        LET dir == fs[session_path]
            chunks == Sorted(Glob(dir))
        IN  IF chunks = <<>>
            THEN [outcome |-> "no_chunks", total |-> 0, order |-> <<>>, dest |-> NoFile]
            ELSE IF io = "open_fails"
            THEN [outcome |-> "io_error", total |-> 0, order |-> <<>>,
                  dest |-> FailedMergeDest(NoFile)]
            ELSE IF io = "copy_fails"
            THEN [outcome |-> "io_error", total |-> 0, order |-> <<>>,
                  dest |-> FailedMergeDest(
                               [exists |-> TRUE,
                                data |-> CopyAll(SubSeq(chunks, 1, Len(chunks) - 1), dir)])]
            ELSE [outcome |-> "ok", total |-> TotalBytes(chunks, dir), order |-> chunks,
                  dest |-> [exists |-> TRUE, data |-> CopyAll(chunks, dir)]]

\* cleanup_session(upload_id)
cleanup_session(fs, upload_id) ==
    LET session_path == get_upload_session_path(upload_id)
    IN  IF session_path \in DOMAIN fs THEN RemoveTree(fs, session_path) ELSE fs

\* the sessions whose directory is gone are closed
CloseRemoved(fs, state) ==
    [u \in SessionIds |->
        IF state[u] = "live" /\ get_upload_session_path(u) \notin DOMAIN fs
        THEN "closed" ELSE state[u]]

\* the bytes of all files stored in a directory
RECURSIVE StoredBytes(_)
StoredBytes(dir) ==
    IF DOMAIN dir = {} THEN 0
    ELSE LET n == CHOOSE x \in DOMAIN dir : TRUE
         IN Len(dir[n]) + StoredBytes([m \in DOMAIN dir \ {n} |-> dir[m]])

\* POST /upload/init: init_upload_session with a new uuid4
InitUploadSession ==
    /\ \E u \in SessionIds :
        /\ sessionState[u] = "unissued"
        /\ chunkFs' = MakeDirs(chunkFs, get_upload_session_path(u))
        /\ sessionState' = [sessionState EXCEPT ![u] = "live"]
    /\ UNCHANGED <<saves, lastSave, cpc, cReq, destFile, cMerge, cOutcome, recordCreated,
                   completes, merged>>
    /\ UNCHANGED <<taskVars, cmdVars, migVars>>

\* POST /upload/chunk: upload_video_chunk calls save_chunk
UploadVideoChunk ==
    /\ saves < MaxSaves
    /\ \E u \in RequestIds, i \in ChunkIndices, d \in ChunkData :
        LET r == save_chunk(chunkFs, u, i, d)
        IN  /\ chunkFs' = r.fs
            /\ lastSave' = [upload_id |-> u,
                            known |-> u \in SessionIds /\ sessionState[u] = "live",
                            outcome |-> r.outcome, stored |-> r.fs # chunkFs]
    /\ saves' = saves + 1
    /\ UNCHANGED <<sessionState, cpc, cReq, destFile, cMerge, cOutcome, recordCreated,
                   completes, merged>>
    /\ UNCHANGED <<taskVars, cmdVars, migVars>>

\* the except Exception block of complete_chunk_upload (lines 453-462)
CompleteFailed(fs, upload_id) ==
    /\ destFile' = NoFile
    /\ chunkFs' = cleanup_session(fs, upload_id)
    /\ sessionState' = CloseRemoved(chunkFs', sessionState)
    /\ cOutcome' = "http_500"
    /\ cpc' = "finished"

\* the except HTTPException block of complete_chunk_upload (lines 450-452)
CompleteRefused(code) ==
    /\ cOutcome' = code
    /\ cpc' = "finished"
    /\ UNCHANGED <<chunkFs, sessionState, destFile>>

\* POST /upload/complete up to the merge (lines 371-381)
CompleteMerge ==
    /\ cpc \in {"idle", "finished"}
    /\ completes < MaxCompletes
    /\ completes' = completes + 1
    /\ recordCreated' = FALSE
    /\ \E u \in RequestIds, io \in IoOutcomes :
        LET fs == ensure_directories(chunkFs)
            r == merge_chunks(fs, u, io)
            session_path == get_upload_session_path(u)
        IN  /\ cReq' = u
            /\ cMerge' = [outcome |-> r.outcome, total |-> r.total, order |-> r.order,
                          stored |-> IF session_path \in DOMAIN fs
                                     THEN StoredBytes(fs[session_path]) ELSE 0,
                          dest |-> r.dest]
            /\ IF r.outcome = "ok"
               THEN /\ destFile' = r.dest
                    /\ chunkFs' = fs
                    /\ merged' = [merged EXCEPT ![u] = @ + 1]
                    /\ cOutcome' = "none"
                    /\ cpc' = "validate"
                    /\ UNCHANGED sessionState
               ELSE /\ CompleteFailed(fs, u)
                    /\ UNCHANGED merged
    /\ UNCHANGED <<saves, lastSave>>
    /\ UNCHANGED <<taskVars, cmdVars, migVars>>

\* the size, quota and category checks (lines 384-406)
CompleteValidate ==
    /\ cpc = "validate"
    /\ \/ CompleteRefused("http_400")
       \/ CompleteRefused("http_403")
       \/ CompleteRefused("http_404")
       \/ CompleteFailed(chunkFs, cReq)
       \/ /\ cpc' = "create"
          /\ UNCHANGED <<chunkFs, sessionState, destFile, cOutcome>>
    /\ UNCHANGED <<saves, lastSave, cReq, cMerge, recordCreated, completes, merged>>
    /\ UNCHANGED <<taskVars, cmdVars, migVars>>

\* the Video row is added and committed, the quota incremented, the task queued (409-429)
CompleteCreate ==
    /\ cpc = "create"
    /\ \/ \* db.commit() raises
          /\ CompleteFailed(chunkFs, cReq)
          /\ UNCHANGED recordCreated
       \/ \* the row is committed, db.refresh or increment_user_quota raises
          /\ CompleteFailed(chunkFs, cReq)
          /\ recordCreated' = TRUE
       \/ /\ recordCreated' = TRUE
          /\ cpc' = "cleanup"
          /\ UNCHANGED <<chunkFs, sessionState, destFile, cOutcome>>
    /\ UNCHANGED <<saves, lastSave, cReq, cMerge, completes, merged>>
    /\ UNCHANGED <<taskVars, cmdVars, migVars>>

\* cleanup_session, then the response is built (lines 432-448)
CompleteCleanup ==
    /\ cpc = "cleanup"
    /\ \/ \* building the response raises after the cleanup
          CompleteFailed(cleanup_session(chunkFs, cReq), cReq)
       \/ /\ chunkFs' = cleanup_session(chunkFs, cReq)
          /\ sessionState' = CloseRemoved(chunkFs', sessionState)
          /\ cOutcome' = "ok"
          /\ cpc' = "finished"
          /\ UNCHANGED destFile
    /\ UNCHANGED <<saves, lastSave, cReq, cMerge, recordCreated, completes, merged>>
    /\ UNCHANGED <<taskVars, cmdVars, migVars>>

\* the storage root may or may not exist when the first request arrives
InitChunk ==
    /\ TaskIdle
    /\ CmdIdle
    /\ MigIdle
    /\ chunkFs \in {EmptyDir, ensure_directories(EmptyDir)}
    /\ ChunkStart

NextChunk ==
    \/ InitUploadSession
    \/ UploadVideoChunk
    \/ CompleteMerge
    \/ CompleteValidate
    \/ CompleteCreate
    \/ CompleteCleanup

SpecChunk == InitChunk /\ [][NextChunk]_vars

(***************************************************************************)
(* Migration coordinator: get_migration_status, migrate_video_to_hls and   *)
(* migrate_all_videos_to_hls of services/background_tasks.py.  Tasks       *)
(* interleave at the await points only; a list object is an entry of       *)
(* errLists and a dict refers to it by its id.                             *)
(***************************************************************************)
\* number of migrate_all_videos_to_hls invocations explored
MaxInvocations == 2

\* video.title of the library's videos ("" when the video has no title)
VideoTitle == [v \in VideoIds |-> IF v = "a" THEN "Clip A" ELSE ""]

\* text of an exception raised by the database layer
DbDown == "db down"

\* a guard that lets every invocation through
NeverRunning(state) == FALSE

\* the guard of migrate_all_videos_to_hls (line 346)
AlreadyRunning(state) == state.is_running

\* a finally block that leaves the state as it is
FinallyKeepsState(state) == state

\* the finally block of migrate_all_videos_to_hls (lines 420-422)
Finally(state) == [state EXCEPT !.is_running = FALSE, !.current_video = None]

\* an item's exception that is swallowed without a record
ItemRaisedUnrecorded(errs, video_id, text) == errs

\* the except block of the loop (lines 406-408)
ItemRaised(errs, video_id, text) == Append(errs, "Error: " \o video_id \o " - " \o text)

\* the else branch of the loop (lines 402-405)
ItemFailed(errs, video_id) == Append(errs, "Failed to migrate: " \o video_id)

\* the candidates of a batch: the Completed videos without a manifest, in query order
VideosToMigrate(statuses, manifests) ==
    SelectSeq(VideoOrder, LAMBDA v : statuses[v] = "Completed" /\ ~manifests[v])

\* processing_status of the records of the library
VideoStatuses == {"Completed", "Processing"}

\* how transcode_video_hls ends for its caller, and whether the encoder wrote a
\* manifest: it returns (True, ""), returns (False, msg), or the fallback run
\* by one of its exception handlers times out or raises
TranscodeHlsEnds == [out : {"ok", "fail", "raise"}, manifest : BOOLEAN]

\* storage.delete_hls_directory at line 302: the partial directory is removed
delete_hls_directory(has_manifest) == FALSE

\* a migrate_video_to_hls that encodes again although the manifest exists
MigrateOutcomesReencodes(processing_status, has_manifest, has_source) ==
    {[status |-> processing_status, had_manifest |-> has_manifest, ret |-> "true",
      launched |-> TRUE, manifest |-> TRUE]}

\* migrate_video_to_hls(video_id): the status it read, whether the manifest was
\* there, what it returned, whether it launched the encoder and the manifest it left
MigrateOutcomes(processing_status, has_manifest, has_source) ==
    LET End(seen, ret, launched, m) ==
            [status |-> seen, had_manifest |-> has_manifest, ret |-> ret,
             launched |-> launched, manifest |-> m]
        AfterEncode(e) ==
            CASE e.out = "ok" ->
                     {End(processing_status, "true", TRUE, e.manifest),      \* committed
                      End(processing_status, "false", TRUE, e.manifest)}     \* commit of line 321 raises
              [] e.out = "fail" ->
                     {End(processing_status, "false", TRUE, delete_hls_directory(e.manifest))}
              [] e.out = "raise" ->
                     {End(processing_status, "false", TRUE, e.manifest)}     \* except of line 332
    IN  {End("unread", "raise", FALSE, has_manifest),     \* the session of line 234 fails
         End("unread", "false", FALSE, has_manifest)}     \* the query raises or finds no row
        \cup
        IF processing_status # "Completed" THEN {End(processing_status, "false", FALSE, has_manifest)}
        ELSE IF has_manifest THEN {End(processing_status, "true", FALSE, TRUE)}
        ELSE IF ~has_source THEN {End(processing_status, "false", FALSE, FALSE)}
        ELSE {End(processing_status, "false", FALSE, FALSE)}         \* mkdir of line 295 raises
             \cup UNION {AfterEncode(e) : e \in TranscodeHlsEnds}

\* what a dict shows to its reader: the errors list is read through its id
Deref(state, lists) == [state EXCEPT !.errors = lists[state.errors]]

\* everything of the coordinator an invocation could change
BatchVars ==
    <<migration_state, errLists, mpc, todo, enumerated, attempted, hasManifest, hasSource,
      batches, countsBatch>>

\* migrate_all_videos_to_hls is invoked: the guard, then lines 350-351
MigrateAllStart(t) ==
    /\ mpc[t] = "idle"
    /\ invocations < MaxInvocations
    /\ invocations' = invocations + 1
    /\ IF AlreadyRunning(migration_state)
       THEN UNCHANGED BatchVars
       ELSE /\ errLists' = Append(errLists, <<>>)
            /\ migration_state' = [migration_state EXCEPT !.is_running = TRUE,
                                                          !.errors = Len(errLists) + 1]
            /\ mpc' = [mpc EXCEPT ![t] = "config"]
            /\ todo' = [todo EXCEPT ![t] = <<>>]
            /\ enumerated' = [enumerated EXCEPT ![t] = <<>>]
            /\ attempted' = [attempted EXCEPT ![t] = <<>>]
            /\ batches' = batches + 1
            /\ UNCHANGED <<hasManifest, hasSource, countsBatch>>
    /\ UNCHANGED snapshot
    /\ UNCHANGED <<taskVars, cmdVars, chunkVars, videoStatus, lastCall>>

\* the batch leaves the try block: the finally block runs, the locals are gone
BatchEnds(t) ==
    /\ migration_state' = Finally(migration_state)
    /\ mpc' = [mpc EXCEPT ![t] = "idle"]
    /\ todo' = [todo EXCEPT ![t] = <<>>]
    /\ enumerated' = [enumerated EXCEPT ![t] = <<>>]
    /\ attempted' = [attempted EXCEPT ![t] = <<>>]

\* the session is opened and the config is checked (lines 354-364)
CheckConfig(t) ==
    /\ mpc[t] = "config"
    /\ \/ \* async_session_maker() raises: except Exception of line 418
          BatchEnds(t)
       \/ \* the config cannot be read or checked: the warning of line 362
          /\ mpc' = [mpc EXCEPT ![t] = "query"]
          /\ UNCHANGED <<migration_state, todo, enumerated, attempted>>
       \/ /\ ~RaisesAttributeError(cfgRow @@ [video_output_format |-> "hls"])
          /\ \/ \* segmented output is enabled
                /\ mpc' = [mpc EXCEPT ![t] = "query"]
                /\ UNCHANGED <<migration_state, todo, enumerated, attempted>>
             \/ \* it is disabled: return of line 360
                BatchEnds(t)
    /\ UNCHANGED <<errLists, hasManifest, hasSource, snapshot, invocations, batches,
                   countsBatch>>
    /\ UNCHANGED <<taskVars, cmdVars, chunkVars, videoStatus, lastCall>>

\* the query and the manifest filter (lines 366-391)
Enumerate(t) ==
    /\ mpc[t] = "query"
    /\ \/ \* db.execute raises: except Exception of line 418
          /\ BatchEnds(t)
          /\ UNCHANGED countsBatch
       \/ LET videos_to_migrate == VideosToMigrate(videoStatus, hasManifest)
          IN  IF videos_to_migrate = <<>>
              THEN /\ BatchEnds(t)
                   /\ UNCHANGED countsBatch
              ELSE /\ migration_state' =
                          [migration_state EXCEPT !.total = Len(videos_to_migrate),
                                                  !.completed = 0]
                   /\ todo' = [todo EXCEPT ![t] = videos_to_migrate]
                   /\ enumerated' = [enumerated EXCEPT ![t] = videos_to_migrate]
                   /\ countsBatch' = batches
                   /\ mpc' = [mpc EXCEPT ![t] = "loop"]
                   /\ UNCHANGED attempted
    /\ UNCHANGED <<errLists, hasManifest, hasSource, snapshot, invocations,
                   batches>>
    /\ UNCHANGED <<taskVars, cmdVars, chunkVars, videoStatus, lastCall>>

\* the loop takes its next candidate and calls migrate_video_to_hls (lines 395-399)
StartItem(t) ==
    /\ mpc[t] = "loop"
    /\ todo[t] # <<>>
    /\ LET video == Head(todo[t])
       IN  /\ migration_state' =
                  [migration_state EXCEPT !.current_video =
                      IF VideoTitle[video] # "" THEN VideoTitle[video] ELSE video]
           /\ attempted' = [attempted EXCEPT ![t] = Append(@, video)]
    /\ mpc' = [mpc EXCEPT ![t] = "item"]
    /\ UNCHANGED <<errLists, todo, enumerated, hasManifest, hasSource, snapshot,
                   invocations, batches, countsBatch>>
    /\ UNCHANGED <<taskVars, cmdVars, chunkVars, videoStatus, lastCall>>

\* migrate_video_to_hls ends and the loop records the result (lines 399-408)
FinishItem(t) ==
    /\ mpc[t] = "item"
    /\ LET video == Head(todo[t])
           errs == errLists[migration_state.errors]
       IN  \E o \in MigrateOutcomes(videoStatus[video], hasManifest[video], hasSource[video]) :
            /\ hasManifest' = [hasManifest EXCEPT ![video] = o.manifest]
            /\ lastCall' = o
            /\ IF o.ret = "true"
               THEN /\ migration_state' =
                          [migration_state EXCEPT !.completed = @ + 1]
                    /\ UNCHANGED errLists
               ELSE /\ errLists' =
                          [errLists EXCEPT ![migration_state.errors] =
                              IF o.ret = "false" THEN ItemFailed(errs, video)
                              ELSE ItemRaised(errs, video, DbDown)]
                    /\ UNCHANGED migration_state
    /\ mpc' = [mpc EXCEPT ![t] = "sleep"]
    /\ UNCHANGED <<todo, enumerated, attempted, hasSource, snapshot, invocations, batches,
                   countsBatch>>
    /\ UNCHANGED <<taskVars, cmdVars, chunkVars, videoStatus>>

\* asyncio.sleep(1) returns and the loop goes on (line 411)
Sleep(t) ==
    /\ mpc[t] = "sleep"
    /\ todo' = [todo EXCEPT ![t] = Tail(@)]
    /\ mpc' = [mpc EXCEPT ![t] = "loop"]
    /\ UNCHANGED <<migration_state, errLists, enumerated, attempted, hasManifest, hasSource,
                   snapshot, invocations, batches, countsBatch>>
    /\ UNCHANGED <<taskVars, cmdVars, chunkVars, videoStatus, lastCall>>

\* the loop is exhausted: summary log, then the finally block (lines 413-422)
LoopEnd(t) ==
    /\ mpc[t] = "loop"
    /\ todo[t] = <<>>
    /\ BatchEnds(t)
    /\ UNCHANGED <<errLists, hasManifest, hasSource, snapshot,
                   invocations, batches, countsBatch>>
    /\ UNCHANGED <<taskVars, cmdVars, chunkVars, videoStatus, lastCall>>

\* get_migration_status(): _migration_state.copy()
GetMigrationStatus ==
    /\ snapshot' = [taken |-> TRUE, dict |-> migration_state,
                    seen |-> Deref(migration_state, errLists)]
    /\ UNCHANGED <<BatchVars, invocations>>
    /\ UNCHANGED <<taskVars, cmdVars, chunkVars, videoStatus, lastCall>>

\* the library when the coordinator is first invoked
InitMig ==
    /\ TaskIdle
    /\ CmdIdle
    /\ ChunkIdle
    /\ MigStart
    /\ hasManifest \in [VideoIds -> BOOLEAN]
    /\ hasSource \in [VideoIds -> BOOLEAN]
    /\ videoStatus \in [VideoIds -> VideoStatuses]

\* the steps of a batch that is under way
BatchStep(t) ==
    \/ CheckConfig(t)
    \/ Enumerate(t)
    \/ StartItem(t)
    \/ FinishItem(t)
    \/ Sleep(t)
    \/ LoopEnd(t)

NextMig ==
    \/ \E t \in Tasks : MigrateAllStart(t)
    \/ \E t \in Tasks : BatchStep(t)

SpecMig == InitMig /\ [][NextMig]_vars

\* every await of a batch returns or raises: db calls, the encoder (bounded by its
\* timeouts) and asyncio.sleep(1)
SpecMigFair == SpecMig /\ \A t \in Tasks : WF_vars(BatchStep(t))

\* migrate_video_to_hls(video_id) called on its own, outside a batch
MigrateVideoToHls ==
    /\ \E video \in VideoIds :
       \E o \in MigrateOutcomes(videoStatus[video], hasManifest[video], hasSource[video]) :
           /\ hasManifest' = [hasManifest EXCEPT ![video] = o.manifest]
           /\ lastCall' = o
    /\ UNCHANGED <<migration_state, errLists, mpc, todo, enumerated, attempted, hasSource,
                   snapshot, invocations, batches, countsBatch, videoStatus>>
    /\ UNCHANGED <<taskVars, cmdVars, chunkVars>>

\* the coordinator with callers that also migrate single videos
NextDirect ==
    \/ NextMig
    \/ MigrateVideoToHls

SpecDirect == InitMig /\ [][NextDirect]_vars

\* the coordinator with a client that polls the migration status
NextStatus ==
    \/ NextMig
    \/ GetMigrationStatus

SpecStatus == InitMig /\ [][NextStatus]_vars

(***************************************************************************)
(* Properties.                                                             *)
(***************************************************************************)
\* the encoder processes launched so far, in launch order
EncoderRuns == SelectSeq(procs, LAMBDA p : p.tool \in {"gpu", "cpu"} /\ p.out # "exc")

CountOf(seq, tool) == Cardinality({i \in DOMAIN seq : seq[i].tool = tool})

\* process_video_file has returned a result to the task
FileReturned ==
    DOMAIN result # {} /\ pc \in {"handle_result", "returned", "commit", "finally", "done"}

\* the record was loaded and the job started
JobStarted == Len(writes) >= 1

\* cmd holds flag followed by value
HasPair(cmd, flag, value) ==
    \E i \in 1..(Len(cmd) - 1) : cmd[i] = flag /\ cmd[i + 1] = value

\* the GPU run exited non-zero and the CPU run after it exited zero
GpuFailedCpuSucceeded ==
    /\ UseGpu
    /\ Len(EncoderRuns) = 2
    /\ EncoderRuns[1].tool = "gpu" /\ EncoderRuns[1].out = "nonzero"
    /\ EncoderRuns[2].tool = "cpu" /\ EncoderRuns[2].out = "zero"

\* thumbnail extraction was attempted and failed
ThumbnailFailed == thumbOutcome \in {"nonzero", "timeout", "exc"}

\* a probe of needs_transcoding failed or timed out
ProbeStepFailed ==
    \E i \in DOMAIN procs :
        procs[i].tool \in {"codec_probe", "pix_probe"} /\ procs[i].out # "zero"

\* the probes reported H.264, an 8-bit pixel format and an .mp4 container
ProbedCompatible ==
    /\ probedCodec = "h264"
    /\ probedPixFmt \in {"yuv420p", "yuvj420p"}
    /\ PathSuffix(startFilename) = ".mp4"
    /\ ~ProbeStepFailed

\* the pixel format the builders were given, empty when unset
SourcePixFmt ==
    LET raw == Get(cmdColor, "pix_fmt", None) IN IF raw = None THEN "" ELSE raw

\* C1: after process_video_task finishes by any path, the temporary input
\* file (TEMP_STORAGE_PATH joined with the file name the record had when the
\* job started) no longer exists.
C1_TempFileDeleted ==
    (pc = "done" /\ JobStarted) => startFilename \notin tempFiles

\* C2: within one invocation the status follows Pending -> Processing ->
\* Completed or Pending -> Processing -> Failed only: Processing is written
\* and committed before any probe or encoder is launched, and a terminal
\* status is written at most once and never followed by another write.
C2_StatusWrittenOnce ==
    /\ writes \in {<<>>, <<"Processing">>, <<"Processing", "Completed">>,
                   <<"Processing", "Failed">>}
    /\ (caller = "task" /\ procs # <<>>) =>
          (processingCommitted /\ writes # <<>> /\ writes[1] = "Processing")

\* C3: with GPU transcoding enabled, when the GPU run exits non-zero and the
\* CPU run exits zero, process_video_file returns success = true, error unset
\* and output_format equal to the configured format, in both modes.
C3_FallbackInvisible ==
    (FileReturned /\ GpuFailedCpuSucceeded) =>
        /\ result.success
        /\ result.error = None
        /\ result.output_format = VideoOutputFormat

C3_Witness ==
    /\ pc = "done"
    /\ DOMAIN result # {}
    /\ GpuFailedCpuSucceeded
    /\ result.success
    /\ result.output_format = "hls"
    /\ dbStatus = "Completed"

\* C4: one call of an executor launches at most two encoder processes: at
\* most one GPU run, which comes first, and at most one CPU run after it; a
\* GPU run exiting non-zero followed by a successful CPU run makes exactly 2.
C4_AtMostTwoEncoderRuns ==
    LET r == EncoderRuns
    IN /\ Len(r) <= 2
       /\ CountOf(r, "gpu") <= 1
       /\ CountOf(r, "cpu") <= 1
       /\ \A i \in DOMAIN r : r[i].tool = "gpu" => i = 1
       /\ (/\ r # <<>>
           /\ r[1].tool = "gpu" /\ r[1].out = "nonzero"
           /\ r[Len(r)].tool = "cpu" /\ r[Len(r)].out = "zero") => Len(r) = 2

\* C5: when use_gpu is false the executor launches exactly one encoder
\* process, from the CPU command; if it exits non-zero or times out the
\* executor returns (false, error_message) without launching another encoder
\* process and without raising.
C5_CpuOnlyRunsOnce ==
    (~UseGpu /\ procs # <<>>) =>
        /\ Len(EncoderRuns) <= 1
        /\ CountOf(EncoderRuns, "gpu") = 0
        /\ ~execRaised

\* C6 (as claimed): an unexpected exception after the record was loaded is
\* re-raised to the caller once the record was moved to Failed and the
\* finalizer ran; the task does not return normally.
C6_ExceptionReraised ==
    (pc = "done" /\ JobStarted /\ excSeen # None) => (finalizerRan /\ raised)

\* C6 (amended): an unexpected exception after the record was loaded makes
\* the task move the record to Failed with the text "Processing error: " +
\* exception text cut to 500 characters (when that update commits), run the
\* finalizer and then return normally: the exception is logged, not re-raised.
C6_ExceptionHandledNotReraised ==
    (pc = "done" /\ JobStarted /\ excSeen # None) =>
        /\ finalizerRan
        /\ ~raised
        /\ handlerCommitted =>
              /\ dbStatus = "Failed"
              /\ dbError = Prefix("Processing error: " \o excSeen, ErrLimit)

C6_Witness ==
    /\ pc = "done"
    /\ excSeen = "Temp file not found: ../data/uploads/temp/v.mov"
    /\ handlerCommitted
    /\ dbStatus = "Failed"
    /\ dbError = "Processing error: Temp file not found: ../data/uploads/temp/v.mov"
    /\ finalizerRan
    /\ ~raised

\* C7: in segmented mode success is reported only if master.m3u8 exists in
\* the output directory: an encoder exiting zero without a manifest is not
\* reported as success and the record is not marked Completed.
C7_ManifestRequired ==
    /\ (FileReturned /\ IsHls /\ result.success) => manifest
    /\ (IsHls /\ status = "Completed") => manifest

\* C8: whenever the transcode (or the copy) succeeds and thumbnail extraction
\* fails (non-zero exit, timeout or exception), process_video_file returns
\* success = true and process_video_task marks the record Completed, with
\* thumbnail_filename empty when no thumbnail file exists.
C8_ThumbnailNonFatal ==
    ThumbnailFailed =>
        /\ result.success
        /\ (caller = "task" /\ pc # "handle_result") =>
              /\ Len(writes) >= 2 /\ writes[2] = "Completed"
              /\ ~thumbExists => thumbnail_filename = None
        /\ (pc \in {"finally", "done"} /\ excSeen = None) => dbStatus = "Completed"

C8_Witness ==
    /\ caller = "task"
    /\ pc = "done"
    /\ thumbOutcome = "timeout"
    /\ ~thumbExists
    /\ result.success
    /\ dbStatus = "Completed"
    /\ thumbnail_filename = None

\* C9: in progressive mode an input probed as H.264, .mp4 and 8-bit is copied
\* byte for byte without launching an encoder; if any probe step fails, times
\* out or reports an empty pixel format the source is transcoded, never copied.
C9_CopyOnlyWhenVerified ==
    /\ (ProbedCompatible /\ pc \notin {"needs_pix"}) =>
          /\ EncoderRuns = <<>>
          /\ (FileReturned /\ result.success) => output = "src"
    /\ (ProbeStepFailed \/ probedPixFmt = "") => (pc # "copy" /\ output # "src")

\* C10 (as claimed): in all four built commands a source with color_range=pc
\* gets -color_range pc and yuvj420p, and a source with color_range=tv or no
\* color_range gets -color_range tv and yuv420p.
C10_ColorByRangeAlone ==
    \A k \in DOMAIN cmds \cap BuilderCommands :
        LET cr == Get(cmdColor, "color_range", None)
        IN /\ cr = "pc" =>
                /\ HasPair(cmds[k], "-color_range", "pc")
                /\ HasPair(cmds[k], "-pix_fmt", "yuvj420p")
           /\ cr \in {"tv", None} =>
                /\ HasPair(cmds[k], "-color_range", "tv")
                /\ HasPair(cmds[k], "-pix_fmt", "yuv420p")

\* C10 (amended): in all four built commands a source with color_range=pc, or
\* with a pixel format starting with yuvj, gets -color_range pc and yuvj420p;
\* a source with color_range=tv or no color_range whose pixel format does not
\* start with yuvj gets -color_range tv and yuv420p.
C10_ColorByRangeOrPixFmt ==
    \A k \in DOMAIN cmds \cap BuilderCommands :
        LET cr == Get(cmdColor, "color_range", None)
            yuvj == Len(SourcePixFmt) >= 4 /\ SubSeq(SourcePixFmt, 1, 4) = "yuvj"
        IN /\ (cr = "pc" \/ yuvj) =>
                /\ HasPair(cmds[k], "-color_range", "pc")
                /\ HasPair(cmds[k], "-pix_fmt", "yuvj420p")
                /\ ~HasPair(cmds[k], "-color_range", "tv")
           /\ (cr \in {"tv", None} /\ ~yuvj) =>
                /\ HasPair(cmds[k], "-color_range", "tv")
                /\ HasPair(cmds[k], "-pix_fmt", "yuv420p")
                /\ ~HasPair(cmds[k], "-color_range", "pc")

C10_Witness ==
    /\ DOMAIN cmds # {}
    /\ Get(cmdColor, "color_range", None) = "tv"
    /\ Get(cmdColor, "pix_fmt", None) = "yuvj420p"
    /\ HasPair(cmds.hls_cpu, "-color_range", "pc")
    /\ HasPair(cmds.progressive_gpu, "-pix_fmt", "yuvj420p")

\* the chunk indices whose files a merge copied, in ascending numerical order
RECURSIVE AscendingIndices(_)
AscendingIndices(S) ==
    IF S = {} THEN <<>>
    ELSE LET least == CHOOSE x \in S : \A y \in S : x <= y
         IN <<least>> \o AscendingIndices(S \ {least})

\* the chunk indices of the files a successful merge copied
MergedIndices ==
    {i \in ChunkIndices : \E k \in DOMAIN cMerge.order : cMerge.order[k] = ChunkFileName(i)}

\* C11: a successful merge_chunks concatenates the stored chunks in ascending
\* numerical order of their indices, whatever the indices and the arrival order
C11_MergeInIndexOrder ==
    cMerge.outcome = "ok" =>
        cMerge.order = [k \in 1..Cardinality(MergedIndices) |->
                           ChunkFileName(AscendingIndices(MergedIndices)[k])]

\* a step of complete_chunk_upload that ends the request after calling cleanup_session
CleanupStep ==
    /\ cpc # "finished"
    /\ cpc' = "finished"
    /\ cOutcome' \in {"ok", "http_500"}

\* C12: a successful merge_chunks returns a total equal to the size of the
\* destination file and to the sum of the sizes of the chunks stored at that time,
\* whatever save_chunk calls preceded it; right after cleanup_session the session
\* directory, and with it every chunk, is gone
C12_MergeTotalAndCleanup ==
    [][/\ cMerge'.outcome = "ok" =>
            /\ cMerge'.total = Len(cMerge'.dest.data)
            /\ cMerge'.total = cMerge'.stored
       /\ CleanupStep => get_upload_session_path(cReq') \notin DOMAIN chunkFs']_vars

\* a session with two chunks of different sizes was merged and cleaned up
C12_Witness ==
    /\ cReq = "s1"
    /\ cMerge.outcome = "ok"
    /\ Len(cMerge.order) = 2
    /\ cMerge.total = 3
    /\ cOutcome = "ok"
    /\ get_upload_session_path("s1") \notin DOMAIN chunkFs

\* C13: save_chunk on an upload_id whose session does not exist (never initialised
\* or already cleaned up) raises session-not-found and stores nothing
C13_SaveNeedsSession ==
    (lastSave.outcome # "none" /\ ~lastSave.known) =>
        /\ lastSave.outcome = "session_not_found"
        /\ ~lastSave.stored

\* C14: a merge_chunks call that fails (unknown session, no chunks, I/O failure
\* while merging) leaves no file at the destination path
C14_FailedMergeLeavesNoFile ==
    cMerge.outcome \in {"session_not_found", "no_chunks", "io_error"} =>
        ~cMerge.dest.exists

\* the merge of an initialised session with two stored chunks failed on an I/O error
C14_Witness ==
    /\ cReq = "s1"
    /\ cMerge.outcome = "io_error"
    /\ lastSave.upload_id = "s1"
    /\ saves = 2

\* the step in which complete_chunk_upload returns or raises
CompleteFinishes == cpc # "finished" /\ cpc' = "finished"

\* C15: whenever complete_chunk_upload finishes, normally or by any error, the
\* session's chunk directory is gone, the session was merged at most once, and the
\* merged temp file is gone unless a Video record referencing it was created
C15_CompleteReleasesSession ==
    [][CompleteFinishes =>
          /\ get_upload_session_path(cReq') \notin DOMAIN chunkFs'
          /\ merged'[cReq'] <= 1
          /\ destFile'.exists => recordCreated']_vars

\* a step in which migrate_all_videos_to_hls is invoked while a batch is running
InvokedWhileRunning == invocations' = invocations + 1 /\ migration_state.is_running

\* C16: an invocation of migrate_all_videos_to_hls while a batch is running changes
\* nothing: not is_running, total, completed, current_video or errors, it migrates
\* no item and it leaves the running batch where it is
C16_InvocationWhileRunningIsNoOp ==
    [][InvokedWhileRunning =>
          UNCHANGED <<migration_state, errLists, mpc, todo, attempted, hasManifest>>]_vars

\* an invocation was turned away while the running batch had migrated one item
C16_Witness ==
    /\ invocations > batches
    /\ migration_state.is_running
    /\ migration_state.completed = 1

\* the errors list the migration state refers to
CurrentErrors == errLists[migration_state.errors]

\* the batch of task t has passed the guard and not ended yet
BatchRunning(t) == mpc[t] # "idle"

\* the batch of task t has ended and the state shows it
BatchOver(t) ==
    /\ mpc[t] = "idle"
    /\ ~migration_state.is_running
    /\ migration_state.current_video = None

\* C17: every batch that passed the guard eventually ends with is_running = false
\* and current_video cleared, however it ended
C17_BatchEventuallyEnds == \A t \in Tasks : BatchRunning(t) ~> BatchOver(t)

\* a batch with a migrated and a failed item has ended
C17_Witness ==
    /\ batches >= 1
    /\ \A t \in Tasks : BatchOver(t)
    /\ migration_state.completed = 1
    /\ Len(CurrentErrors) = 1

IsPrefix(a, b) == Len(a) <= Len(b) /\ SubSeq(b, 1, Len(a)) = a

\* the loop of task t has gone through all its candidates
LoopOver(t) == mpc[t] = "loop" /\ todo[t] = <<>>

\* C18: a batch attempts every enumerated candidate exactly once, in order, also
\* when an item returns failure or raises: completed + len(errors) <= total at
\* every point, and completed + len(errors) = total when the loop ends
C18_EveryCandidateOnce ==
    /\ migration_state.completed + Len(CurrentErrors) <= migration_state.total
    /\ \A t \in Tasks :
        /\ IsPrefix(attempted[t], enumerated[t])
        /\ LoopOver(t) =>
            /\ attempted[t] = enumerated[t]
            /\ migration_state.completed + Len(CurrentErrors) = migration_state.total

\* a loop over two candidates ended with one migrated and one failed for a missing
\* source file
C18_Witness ==
    \E t \in Tasks :
        /\ LoopOver(t)
        /\ Len(enumerated[t]) = 2
        /\ \E v \in VideoIds : ~hasSource[v]
        /\ migration_state.completed = 1
        /\ Len(CurrentErrors) = 1

\* C19: once a batch has set is_running = true, errors is empty and total and
\* completed do not hold the values an earlier batch wrote, during and after the
\* batch, also when it finds no candidates
C19_BatchStartsFresh ==
    batches >= 1 =>
        /\ countsBatch \in {0, batches}
        /\ \A t \in Tasks : mpc[t] = "config" => CurrentErrors = <<>>

\* C20: no later step of a running or future batch changes any field of a dict
\* that get_migration_status returned, the contents of its errors list included
C20_SnapshotIsACopy ==
    snapshot.taken => Deref(snapshot.dict, errLists) = snapshot.seen

\* the executor returned failure after its last encoder run exited non-zero
FinalAttemptFailed ==
    /\ pc = "handle_result"
    /\ EncoderRuns # <<>>
    /\ procs[Len(procs)].tool = "cpu"
    /\ procs[Len(procs)].out = "nonzero"

\* C22: when the final encoder attempt exits non-zero, the error message the
\* executor returns is exactly the last 500 characters of that process's stderr
\* output, hence at most 500 characters long, in both modes
C22_ErrorIsStderrTail ==
    FinalAttemptFailed =>
        /\ result.error = Suffix(procs[Len(procs)].stderr, ErrLimit)
        /\ Len(result.error) <= ErrLimit

\* validate_video_file reported the input of this job as invalid
ValidationFailed == procs # <<>> /\ ~procs[1].is_valid

\* C23: when validation of the input fails, the job ends Failed with the probe's
\* error text cut to 500 characters as error_message, and no metadata probe,
\* encoder process, file copy or thumbnail extraction is launched for the job
C23_InvalidInputFailsAtOnce ==
    (caller = "task" /\ ValidationFailed) =>
        /\ Len(procs) = 1
        /\ output = "none"
        /\ pc = "done" =>
            /\ dbStatus = "Failed"
            /\ dbError = Prefix(procs[1].error_msg, ErrLimit)

\* the task under the scheduling the event loop gives it: a step that can be
\* taken is taken, because every awaited call returns, raises or times out
SpecFair == Spec /\ WF_vars(Next)

\* C27: an invocation that committed the Processing mark eventually leaves the
\* stored record Completed or Failed
C27_ProcessingEventuallyLeaves ==
    processingCommitted ~> (dbStatus \in {"Completed", "Failed"})

\* the metadata probe succeeded and reported a codec name
ProbeReportedCodec == Get(metadata, "codec", None) # None

\* C30: the result of process_video_file carries the probed codec, duration,
\* width and height whenever the metadata probe reported a codec name
C30_ResultCarriesProbedCodec ==
    (FileReturned /\ ProbeReportedCodec) =>
        /\ result.codec = metadata.codec
        /\ result.duration = metadata.duration
        /\ result.width = metadata.width
        /\ result.height = metadata.height

\* the encoder processes of the job that nothing has ended
RunningEncoders == {i \in DOMAIN procs : procs[i].tool \in {"gpu", "cpu"} /\ procs[i].alive}

\* C26: at most one encoder process of a job runs at any time, and none is
\* running once the executor has returned or raised
C26_OneEncoderAtATime ==
    /\ Cardinality(RunningEncoders) <= 1
    /\ \A i \in RunningEncoders : i = Len(procs)
    /\ pc \in {"handle_result", "returned", "commit", "except", "finally", "done"} =>
           RunningEncoders = {}

\* the argument that follows flag in cmd, None when cmd does not hold flag
FlagValue(cmd, flag) ==
    LET I == {i \in 1..(Len(cmd) - 1) : cmd[i] = flag}
    IN IF I = {} THEN None ELSE cmd[(CHOOSE i \in I : \A k \in I : i <= k) + 1]

\* the scale, pixel format, color and audio arguments of a command
ColorAndSizeFlags ==
    {"-vf", "-pix_fmt", "-color_range", "-colorspace", "-color_trc", "-color_primaries",
     "-c:a", "-b:a"}

ColorAndSizeDecisions(cmd) == [f \in ColorAndSizeFlags |-> FlagValue(cmd, f)]

Names(cmd, word) == \E i \in DOMAIN cmd : cmd[i] = word

\* C24: the GPU and the CPU command of a builder carry the same scale filter,
\* pixel format, color flags and audio settings, the space, transfer and
\* primaries tags are the ones the source reports, and the CPU command never
\* names h264_nvenc
C24_GpuAndCpuCommandsAgree ==
    cmds # <<>> =>
        /\ ColorAndSizeDecisions(cmds.progressive_gpu)
               = ColorAndSizeDecisions(cmds.progressive_cpu)
        /\ ColorAndSizeDecisions(cmds.hls_gpu) = ColorAndSizeDecisions(cmds.hls_cpu)
        /\ \A k \in BuilderCommands :
               /\ FlagValue(cmds[k], "-colorspace") = Get(cmdColor, "color_space", None)
               /\ FlagValue(cmds[k], "-color_trc") = Get(cmdColor, "color_transfer", None)
               /\ FlagValue(cmds[k], "-color_primaries")
                      = Get(cmdColor, "color_primaries", None)
        /\ ~Names(cmds.progressive_cpu, "h264_nvenc")
        /\ ~Names(cmds.hls_cpu, "h264_nvenc")

\* commands of a full-range source that reports its color space, built with
\* the hardware encoder enabled
C24_Witness ==
    /\ cmds # <<>>
    /\ Names(cmds.progressive_gpu, "h264_nvenc")
    /\ Names(cmds.hls_gpu, "h264_nvenc")
    /\ FlagValue(cmds.hls_cpu, "-pix_fmt") = "yuvj420p"
    /\ FlagValue(cmds.progressive_cpu, "-colorspace") = "bt709"

\* the invocations that are between setting is_running and clearing it
RunningBatches == {t \in Tasks : mpc[t] # "idle"}

\* C25: at most one invocation of migrate_all_videos_to_hls is past the
\* is_running guard at any time, is_running is set exactly while one is, and
\* no two batches are inside migrate_video_to_hls at once
C25_OneBatchAtATime ==
    /\ Cardinality(RunningBatches) <= 1
    /\ migration_state.is_running <=> RunningBatches # {}
    /\ Cardinality({t \in Tasks : mpc[t] = "item"}) <= 1

\* a second invocation arrived while the first batch was awaiting an encode
C25_Witness ==
    /\ invocations = 2
    /\ batches = 1
    /\ \E t \in Tasks : mpc[t] = "item"

\* what a step that enumerates candidates or ends a migrate_video_to_hls call
\* must satisfy
IdempotentStep ==
    /\ \A t \in Tasks :
           (enumerated'[t] # enumerated[t] /\ enumerated'[t] # <<>>) =>
               \A i \in DOMAIN enumerated'[t] :
                   /\ videoStatus[enumerated'[t][i]] = "Completed"
                   /\ ~hasManifest[enumerated'[t][i]]
    /\ lastCall'.had_manifest => ~lastCall'.launched
    /\ (lastCall'.status = "Completed" /\ lastCall'.had_manifest) => lastCall'.ret = "true"
    /\ lastCall'.status = "Processing" => (lastCall'.ret = "false" /\ ~lastCall'.launched)

\* C21: a batch selects only Completed records without a manifest; a call of
\* migrate_video_to_hls that reads a Completed record whose manifest exists
\* returns true without launching the encoder, and one that reads a record
\* that is not Completed returns false without launching it
C21_MigrationIsIdempotent == [][IdempotentStep]_vars

\* a batch has selected its candidates and a call on an already migrated,
\* Completed record has returned
C21_Witness ==
    /\ \E t \in Tasks : enumerated[t] # <<>>
    /\ lastCall.status = "Completed"
    /\ lastCall.had_manifest
    /\ lastCall.ret = "true"

\* C29: a migrate_video_to_hls call that launched the encoder and returned
\* false leaves no manifest in the asset's segmented output directory
C29_FailedMigrationLeavesNoManifest ==
    (lastCall.ret = "false" /\ lastCall.launched) => ~lastCall.manifest

\* the color arguments of an encoder command
ColorDecisionFlags ==
    {"-pix_fmt", "-color_range", "-colorspace", "-color_trc", "-color_primaries"}

\* C28: the command migrate_video_to_hls launches for a source carries the
\* color decisions of the command process_video_file launches for it, and a
\* full-range source is encoded with -color_range pc and yuvj420p on both paths
C28_MigrationKeepsSourceColor ==
    cmds # <<>> =>
        /\ \A f \in ColorDecisionFlags :
               FlagValue(cmds.migration, f) = FlagValue(cmds.upload, f)
        /\ IsFullRange(cmdColor) =>
               \A k \in {"upload", "migration"} :
                   /\ FlagValue(cmds[k], "-color_range") = "pc"
                   /\ FlagValue(cmds[k], "-pix_fmt") = "yuvj420p"
====
